---- MODULE Spec2Model ----
(***************************************************************************)
(* Decision-and-ledger engine of finmem-india.                             *)
(*                                                                         *)
(* Ledger part: puppy/utils/portfolio.py (class Portfolio) as it is built  *)
(* by puppy/core/simulation.py and driven by FinMemManager.                *)
(* Memory part: puppy/models/memory.py (class LayeredMemory).              *)
(*                                                                         *)
(* Numbers.  Python floats are modelled as exact rationals [n, d] with     *)
(* d > 0 in lowest terms (rounding error of IEEE doubles is not            *)
(* modelled).  Order prices are whole rupees, so cash stays an integer;    *)
(* the stored average price of a position is a rational.                   *)
(***************************************************************************)
EXTENDS Integers, Sequences, FiniteSets, TLC

VARIABLES
    cash,                \* Portfolio.cash
    positions,           \* Portfolio.positions : symbol -> [quantity, price]
    transactions,        \* Portfolio.transactions
    trade_log,           \* rows handed to TradeLogger.log_trade
    initial_capital,     \* Portfolio.initial_capital
    position_size_limit, \* Portfolio.position_size_limit
    current_state,       \* FinMemManager.current_state (capital fields)
    call,                \* the last ledger call: arguments, state before it, result
    ncalls,              \* number of ledger calls made so far
    short_term,          \* LayeredMemory.short_term
    long_term,           \* LayeredMemory.long_term
    max_short_term,      \* LayeredMemory.max_short_term
    max_long_term,       \* LayeredMemory.max_long_term
    relevance_threshold, \* LayeredMemory.relevance_threshold, in tenths
    now,                 \* the clock datetime.now() reads
    nadds,               \* number of add_memory calls made so far
    decisions,           \* the decisions mapping given to _apply_risk_rules, in insertion order
    portfolio_state,     \* the portfolio_state given to _apply_risk_rules
    risk_trace,          \* per decision: cash available before it, and what the filter did
    risk_done,           \* _apply_risk_rules has returned
    mode,                \* Simulation.mode
    trader_kind,         \* the strategy TradingAgent.__init__ chose
    market_data,         \* the loaded historical data, by date
    running,             \* Simulation.running
    simulation_thread,   \* Simulation.simulation_thread: "none", "alive" or "dead"
    pc,                  \* where the worker is in Simulation.run
    iteration,           \* the worker's iteration counter
    starts,              \* number of effective start_non_blocking calls
    date_index,          \* how many dates the backtest loop has taken
    processed_dates,     \* the dates the backtest loop has taken, in order
    daily,               \* daily_dict["data"] of the step
    pending,             \* the decisions the agent returned for the step
    step,                \* what the current pass of the loop has done
    requested,           \* the last of start_non_blocking and stop to be called
    run_error,           \* where the exception that ended the run was raised
    processor_running,   \* DataProcessor.running
    simulator,           \* DataProcessor.simulator: 0 for None, else which TradingSimulator
    data_thread,         \* DataProcessor.data_thread: 0 for None, else which worker
    workers,             \* the threads DataProcessor.start has created
    stop_raised,         \* the last DataProcessor.stop call ended in an exception
    processor_mode,      \* DataProcessor.mode: "none" for None
    books,               \* the TradingSimulator objects built so far: cash, positions, trade count
    state_file,          \* data/trading_state.json: "absent" or "corrupt" (truncated)
    start_outcome,       \* how the last DataProcessor.start ended, while no other call followed
    cash_balance,        \* PaperTradingEngine.cash_balance
    portfolio,           \* PaperTradingEngine.portfolio : symbol -> quantity, 0 when absent
    memory_log,          \* the records handed to LayeredMemorySystem.add_memory
    decision_calls,      \* number of GeminiAnalyzer.make_trading_decision calls
    saved_trades,        \* the trades handed to DatabaseManager.save_trade
    processed,           \* what the last process_stock call did
    nprocessed,          \* number of process_stock calls made so far
    call_args,           \* the arguments a function under examination is called with
    call_result,         \* what that call returned: NotReturned before it has
    last_trade_date,     \* TradingAgent.last_trade_date : symbol -> date, Absent when not a key
    agent_call           \* the last TradingAgent.make_decisions call and what it returned

ledgerVars == <<cash, positions, transactions, trade_log, initial_capital,
                position_size_limit, current_state, call, ncalls>>

memoryVars == <<short_term, long_term, max_short_term, max_long_term,
                relevance_threshold, now, nadds>>

riskVars == <<decisions, portfolio_state, risk_trace, risk_done>>

simulationVars == <<mode, trader_kind, market_data, running, simulation_thread, pc,
                    iteration, starts, date_index, processed_dates, daily, pending,
                    step, run_error, requested>>

processorVars == <<processor_running, simulator, data_thread, workers, stop_raised,
                   processor_mode, books, state_file, start_outcome>>

systemVars == <<cash_balance, portfolio, memory_log, decision_calls, saved_trades,
                processed, nprocessed>>

pureVars == <<call_args, call_result>>

agentVars == <<last_trade_date, agent_call>>

vars == <<cash, positions, transactions, trade_log, initial_capital,
          position_size_limit, current_state, call, ncalls,
          short_term, long_term, max_short_term, max_long_term,
          relevance_threshold, now, nadds,
          decisions, portfolio_state, risk_trace, risk_done,
          mode, trader_kind, market_data, running, simulation_thread, pc,
          iteration, starts, date_index, processed_dates, daily, pending,
          step, run_error, requested,
          processor_running, simulator, data_thread, workers, stop_raised,
          processor_mode, books, state_file, start_outcome,
          cash_balance, portfolio, memory_log, decision_calls, saved_trades,
          processed, nprocessed,
          call_args, call_result,
          last_trade_date, agent_call>>

None == "None"

-----------------------------------------------------------------------------
(* Bounds and input sets *)

MaxCalls == 2

MaxAdds == 4

Symbols == {"X", "Y"}

\* quantities an intent can carry (the JSON path of GeminiTrader._parse_decisions
\* and GeminiTrader._apply_risk_rules pass any number through)
Quantities == {-100, 0, 50, 100, 200, 5000, 30000}

\* order prices, whole rupees, all positive
Prices == {50, 60}

\* what RealTimeDataManager.get_real_time_price can answer for a symbol;
\* NoQuote stands for None (a quote of 0 is treated the same by "or")
NoQuote == 0
Quotes == {NoQuote, 200}

\* new_capital of a reset request
NewCapitals == {500000}

-----------------------------------------------------------------------------
(* Exact rational arithmetic standing in for Python float arithmetic *)

Abs(x) == IF x < 0 THEN -x ELSE x

Last(seq) == seq[Len(seq)]

RECURSIVE GCD(_, _)
GCD(a, b) == IF b = 0 THEN a ELSE GCD(b, a % b)

\* Python int(a / b): the quotient truncated toward zero (b # 0)
TruncDiv(a, b) ==
    LET q == Abs(a) \div Abs(b)
    IN  IF (a < 0) = (b < 0) THEN q ELSE -q

Rat(num, den) ==
    LET g == GCD(Abs(num), Abs(den))
        s == IF den < 0 THEN -1 ELSE 1
    IN  [n |-> s * (num \div g), d |-> s * (den \div g)]

RInt(i) == [n |-> i, d |-> 1]

RNeg(a) == [n |-> -a.n, d |-> a.d]

RAdd(a, b) ==
    LET g == GCD(a.d, b.d)
    IN  Rat(a.n * (b.d \div g) + b.n * (a.d \div g), (a.d \div g) * b.d)

RSub(a, b) == RAdd(a, RNeg(b))

RMul(a, b) ==
    LET g1 == GCD(Abs(a.n), b.d)
        g2 == GCD(Abs(b.n), a.d)
    IN  IF a.n = 0 \/ b.n = 0 THEN RInt(0)
        ELSE [n |-> (a.n \div g1) * (b.n \div g2), d |-> (a.d \div g2) * (b.d \div g1)]

\* a / b, b # 0
RDiv(a, b) ==
    IF b.n < 0 THEN RMul(a, [n |-> -b.d, d |-> -b.n])
    ELSE RMul(a, [n |-> b.d, d |-> b.n])

\* n1/d1 < n2/d2 for d1, d2 > 0, by comparing continued-fraction expansions
\* (no products, so no intermediate value exceeds the operands)
RECURSIVE FracLess(_, _, _, _)
FracLess(n1, d1, n2, d2) ==
    LET q1 == n1 \div d1
        q2 == n2 \div d2
        r1 == n1 % d1
        r2 == n2 % d2
    IN  IF q1 # q2 THEN q1 < q2
        ELSE IF r2 = 0 THEN FALSE
        ELSE IF r1 = 0 THEN TRUE
        ELSE FracLess(d2, r2, d1, r1)

RLess(a, b) == FracLess(a.n, a.d, b.n, b.d)

RTrunc(a) == TruncDiv(a.n, a.d)

-----------------------------------------------------------------------------
(* Portfolio (puppy/utils/portfolio.py) *)

\* "if quantity < 100" / "if max_quantity < 100" in Portfolio.buy
MinLot == 100

\* Simulation.__init__: Portfolio(initial_capital=1000000, position_size_limit=200000)
SimulationInitialCapital == 1000000
SimulationPositionSizeLimit == RInt(200000)

\* the ceiling the configuration files carry ("position_size_limit": 0.2)
ConfigPositionSizeLimit == Rat(1, 5)

NoPositions == [s \in {} |-> [quantity |-> 0, price |-> RInt(0)]]

Held(pos) == DOMAIN pos

\* sum(pos["quantity"] * (current_prices.get(symbol) or pos["price"]) ...)
RECURSIVE SumPositionValue(_, _, _)
SumPositionValue(pos, quotes, S) ==
    IF S = {} THEN RInt(0)
    ELSE LET s == CHOOSE x \in S : TRUE
             px == IF quotes[s] # NoQuote THEN RInt(quotes[s]) ELSE pos[s].price
         IN  RAdd(RMul(RInt(pos[s].quantity), px),
                  SumPositionValue(pos, quotes, S \ {s}))

get_total_value(c, pos, quotes) ==
    IF Held(pos) = {} THEN RInt(c)
    ELSE RAdd(RInt(c), SumPositionValue(pos, quotes, Held(pos)))

\* the in-memory record and the row given to the trade logger
\* (timestamp, reason and the logged portfolio_value are left out of the rows)
TransactionRecord(action, symbol, quantity, price) ==
    [action |-> action, symbol |-> symbol, quantity |-> quantity,
     price |-> price, value |-> quantity * price]

TradeRow(action, symbol, quantity, price, cash_after, profit_loss, profit_loss_pct) ==
    [action |-> action, symbol |-> symbol, quantity |-> quantity,
     price |-> price, value |-> quantity * price,
     cash_after_trade |-> cash_after,
     profit_loss |-> IF action = "SELL" THEN profit_loss ELSE RInt(0),
     profit_loss_pct |-> IF action = "SELL" THEN profit_loss_pct ELSE RInt(0)]

\* outcome of a ledger call: return value, new cash, new positions, and the
\* trade row recorded (NoRow when _record_transaction was not reached)
NoRow == TradeRow("NONE", None, 0, 0, 0, RInt(0), RInt(0))

Outcome(ret, c, pos, row) == [ret |-> ret, cash |-> c, positions |-> pos, row |-> row]

Unchanged(c, pos) == Outcome(FALSE, c, pos, NoRow)

\* lines 102-123: debit, merge or create the position, record
BuyExecute(c, pos, symbol, quantity, price) ==
    LET cost == quantity * price
        c2   == c - cost
    IN  IF symbol \in Held(pos)
        THEN LET current_pos    == pos[symbol]
                 total_quantity == current_pos.quantity + quantity
                 total_cost     == RAdd(RMul(RInt(current_pos.quantity), current_pos.price),
                                        RInt(cost))
             IN  IF total_quantity = 0
                 THEN \* ZeroDivisionError at "avg_price = total_cost / total_quantity",
                      \* caught by "except Exception": cash is already debited
                      Outcome(FALSE, c2, pos, NoRow)
                 ELSE Outcome(TRUE, c2,
                              [pos EXCEPT ![symbol] =
                                  [quantity |-> total_quantity,
                                   price |-> RDiv(total_cost, RInt(total_quantity))]],
                              TradeRow("BUY", symbol, quantity, price, c2, RInt(0), RInt(0)))
        ELSE Outcome(TRUE, c2,
                     [s \in Held(pos) \cup {symbol} |->
                         IF s = symbol THEN [quantity |-> quantity, price |-> RInt(price)]
                         ELSE pos[s]],
                     TradeRow("BUY", symbol, quantity, price, c2, RInt(0), RInt(0)))

\* lines 90-100: the position-size check on the order's own cost
BuyLimit(c, pos, limit, symbol, quantity, price, quotes) ==
    LET position_value  == RInt(quantity * price)
        portfolio_value == get_total_value(c, pos, quotes)
    IN  IF portfolio_value.n = 0
        THEN Unchanged(c, pos)      \* ZeroDivisionError before any mutation
        ELSE IF RLess(limit, RDiv(position_value, portfolio_value))
        THEN LET max_quantity == RTrunc(RDiv(RMul(portfolio_value, limit), RInt(price)))
             IN  IF max_quantity < MinLot
                 THEN Unchanged(c, pos)
                 ELSE BuyExecute(c, pos, symbol, max_quantity, price)
        ELSE BuyExecute(c, pos, symbol, quantity, price)

\* a buy whose cash shrink rounds the affordable quantity up
buy_rounding_up(c, pos, limit, symbol, quantity, price, quotes) ==
    IF quantity * price > c
    THEN LET affordable == TruncDiv(c, price) + 1
         IN  IF affordable < MinLot
             THEN Unchanged(c, pos)
             ELSE BuyLimit(c, pos, limit, symbol, affordable, price, quotes)
    ELSE BuyLimit(c, pos, limit, symbol, quantity, price, quotes)

\* Portfolio.buy, lines 77-127
buy(c, pos, limit, symbol, quantity, price, quotes) ==
    IF quantity * price > c
    THEN LET affordable == TruncDiv(c, price)
         IN  IF affordable < MinLot
             THEN Unchanged(c, pos)
             ELSE BuyLimit(c, pos, limit, symbol, affordable, price, quotes)
    ELSE BuyLimit(c, pos, limit, symbol, quantity, price, quotes)

\* a sell that does not clamp the requested quantity to the holding
SellQuantityUnclamped(quantity, held) == quantity

\* "if quantity > position['quantity']: quantity = position['quantity']"
SellQuantity(quantity, held) == IF quantity > held THEN held ELSE quantity

\* a profit/loss taken on the whole holding instead of the quantity sold
ProfitLossOnHolding(price, position, q) ==
    RMul(RSub(RInt(price), position.price), RInt(position.quantity))

\* "profit_loss = (price - entry_price) * quantity"
ProfitLoss(price, position, q) ==
    RMul(RSub(RInt(price), position.price), RInt(q))

\* Portfolio.sell, lines 139-175
sell(c, pos, symbol, quantity, price, market_open) ==
    IF ~market_open THEN Unchanged(c, pos)
    ELSE IF symbol \notin Held(pos) THEN Unchanged(c, pos)
    ELSE LET position    == pos[symbol]
             q           == SellQuantity(quantity, position.quantity)
             c2          == c + q * price
             entry_price == position.price
             profit_loss == ProfitLoss(price, position, q)
         IN  IF entry_price.n = 0
             THEN \* ZeroDivisionError at profit_loss_pct, caught: cash is already credited
                  Outcome(FALSE, c2, pos, NoRow)
             ELSE LET profit_loss_pct ==
                          RMul(RDiv(RSub(RInt(price), entry_price), entry_price), RInt(100))
                      remaining_quantity == position.quantity - q
                      pos2 == IF remaining_quantity > 0
                              THEN [pos EXCEPT ![symbol].quantity = remaining_quantity]
                              ELSE [s \in Held(pos) \ {symbol} |-> pos[s]]
                  IN  Outcome(TRUE, c2, pos2,
                              TradeRow("SELL", symbol, q, price, c2,
                                       profit_loss, profit_loss_pct))

\* Portfolio._record_transaction: append to transactions and log the row
Recorded(row) ==
    /\ transactions' = IF row = NoRow THEN transactions
                       ELSE Append(transactions,
                                   TransactionRecord(row.action, row.symbol,
                                                     row.quantity, row.price))
    /\ trade_log' = IF row = NoRow THEN trade_log ELSE Append(trade_log, row)

CallRecord(op, symbol, quantity, price, ret) ==
    [op |-> op, symbol |-> symbol, quantity |-> quantity, price |-> price,
     cash_before |-> cash, positions_before |-> positions,
     transactions_before |-> transactions, ret |-> ret]


-----------------------------------------------------------------------------
(* Ledger state machine *)

\* Portfolio.__init__ as called from Simulation.__init__; the ceiling is
\* either the value Simulation passes or the configured fraction
LedgerConstructed ==
    /\ initial_capital = SimulationInitialCapital
    /\ cash = initial_capital
    /\ position_size_limit \in {SimulationPositionSizeLimit, ConfigPositionSizeLimit}
    /\ positions = NoPositions
    /\ transactions = << >>
    /\ trade_log = << >>
    /\ current_state = [initial_capital |-> initial_capital, capital |-> initial_capital]
    /\ call = [op |-> "init", symbol |-> None, quantity |-> 0, price |-> 0,
               cash_before |-> initial_capital, positions_before |-> NoPositions,
               transactions_before |-> << >>, ret |-> FALSE]
    /\ ncalls = 0

Buy ==
    /\ ncalls < MaxCalls
    /\ \E symbol \in Symbols, quantity \in Quantities, price \in Prices,
          quotes \in [Held(positions) -> Quotes] :
          LET o == buy(cash, positions, position_size_limit, symbol, quantity, price, quotes)
          IN  /\ cash' = o.cash
              /\ positions' = o.positions
              /\ Recorded(o.row)
              /\ call' = CallRecord("buy", symbol, quantity, price, o.ret)
    /\ ncalls' = ncalls + 1
    /\ UNCHANGED <<initial_capital, position_size_limit, current_state>>
    /\ UNCHANGED memoryVars
    /\ UNCHANGED riskVars
    /\ UNCHANGED simulationVars
    /\ UNCHANGED <<processorVars, systemVars, pureVars, agentVars>>

Sell ==
    /\ ncalls < MaxCalls
    /\ \E symbol \in Symbols, quantity \in Quantities, price \in Prices,
          market_open \in BOOLEAN :
          LET o == sell(cash, positions, symbol, quantity, price, market_open)
          IN  /\ cash' = o.cash
              /\ positions' = o.positions
              /\ Recorded(o.row)
              /\ call' = CallRecord("sell", symbol, quantity, price, o.ret)
    /\ ncalls' = ncalls + 1
    /\ UNCHANGED <<initial_capital, position_size_limit, current_state>>
    /\ UNCHANGED memoryVars
    /\ UNCHANGED riskVars
    /\ UNCHANGED simulationVars
    /\ UNCHANGED <<processorVars, systemVars, pureVars, agentVars>>

\* FinMemManager.reset_capital with a running simulation: current_state is
\* updated, then self.simulation.portfolio.reset(new_capital) raises
\* AttributeError (Portfolio defines no reset), which the handler turns into
\* "return False"
ResetCapital ==
    /\ ncalls < MaxCalls
    /\ \E new_capital \in NewCapitals :
          /\ current_state' = [initial_capital |-> new_capital, capital |-> new_capital]
          /\ call' = CallRecord("reset", None, 0, new_capital, FALSE)
    /\ ncalls' = ncalls + 1
    /\ UNCHANGED <<cash, positions, transactions, trade_log,
                   initial_capital, position_size_limit>>
    /\ UNCHANGED memoryVars
    /\ UNCHANGED riskVars
    /\ UNCHANGED simulationVars
    /\ UNCHANGED <<processorVars, systemVars, pureVars, agentVars>>

NextLedger == Buy \/ Sell \/ ResetCapital

-----------------------------------------------------------------------------
(* LayeredMemory (puppy/models/memory.py) *)

\* A stock row of market_data["data"].  Absent marks a field that is None;
\* Daily_Return is in basis points (0.05 = 500); scores are in tenths.
Absent == -1

StockRow(volume, volume_ma, daily_return, rsi, ma_20, ma_50) ==
    [Volume |-> volume, Volume_MA |-> volume_ma, Daily_Return |-> daily_return,
     RSI |-> rsi, ma_20 |-> ma_20, ma_50 |-> ma_50]

RowQuiet == StockRow(100, 100, 0, 50, Absent, Absent)
RowSpike == StockRow(200, 100, 0, 50, Absent, Absent)
RowExtreme == StockRow(100, Absent, -600, 80, 100, 100)
RowCross == StockRow(100, 100, 0, 50, 110, 100)
RowAll == StockRow(200, 100, 600, 20, 90, 100)

\* the "data" lists add_memory is given (an empty list also stands for a
\* payload without a "data" key)
DataInputs == {<< >>, <<RowQuiet>>, <<RowSpike>>, <<RowExtreme>>,
               <<RowCross, RowExtreme>>, <<RowAll>>, <<RowAll, RowSpike>>}

\* configured capacities and threshold
ShortTermCapacities == {1, 2}
LongTermCapacities == {1, 2}
RelevanceThresholds == {5}

Min(a, b) == IF a < b THEN a ELSE b

\* the contribution of one stock row, lines 51-74
RowImportance(row) ==
      (IF row.Volume_MA # Absent /\ 2 * row.Volume > 3 * row.Volume_MA THEN 3 ELSE 0)
    + (IF Abs(row.Daily_Return) > 500 THEN 2 ELSE 0)
    + (IF row.RSI < 30 \/ row.RSI > 70 THEN 2 ELSE 0)
    + (IF row.ma_20 # Absent /\ row.ma_50 # Absent
          /\ (row.ma_20 > row.ma_50 \/ row.ma_20 < row.ma_50) THEN 3 ELSE 0)

RECURSIVE SumImportance(_)
SumImportance(data) ==
    IF data = << >> THEN 0
    ELSE RowImportance(Head(data)) + SumImportance(Tail(data))

\* LayeredMemory._calculate_importance: min(importance, 1.0)
calculate_importance(data) == Min(SumImportance(data), 10)

\* LayeredMemory._create_memory_entry
create_memory_entry(data, memory_type, timestamp) ==
    [timestamp |-> timestamp, type |-> memory_type, data |-> data,
     importance_score |-> calculate_importance(data)]

\* the sort key (importance_score, timestamp), compared as Python tuples
KeyLess(a, b) ==
    \/ a.importance_score < b.importance_score
    \/ /\ a.importance_score = b.importance_score
       /\ a.timestamp < b.timestamp

\* list.sort(key=..., reverse=True): a stable sort, largest key first; an
\* element goes behind every element whose key is not smaller than its own
RECURSIVE InsertDescending(_, _)
InsertDescending(sorted, e) ==
    IF sorted = << >> THEN <<e>>
    ELSE IF KeyLess(Head(sorted), e) THEN <<e>> \o sorted
    ELSE <<Head(sorted)>> \o InsertDescending(Tail(sorted), e)

RECURSIVE SortDescending(_)
SortDescending(seq) ==
    IF seq = << >> THEN << >>
    ELSE InsertDescending(SortDescending(SubSeq(seq, 1, Len(seq) - 1)), Last(seq))

\* a trim that keeps one entry more than the limit
TrimOneOver(seq, limit) ==
    IF Len(seq) > limit + 1 THEN SubSeq(seq, 1, limit + 1) ELSE seq

\* "if len(xs) > limit: xs = xs[:limit]"
Trim(seq, limit) ==
    IF Len(seq) > limit THEN SubSeq(seq, 1, limit) ELSE seq

\* LayeredMemory._maintain_memory_size applied to one tier
maintain_memory_size(tier, limit) == Trim(SortDescending(tier), limit)

\* LayeredMemory.__init__
MemoryConstructed(short_cap, long_cap, threshold) ==
    /\ short_term = << >>
    /\ long_term = << >>
    /\ max_short_term = short_cap
    /\ max_long_term = long_cap
    /\ relevance_threshold = threshold
    /\ now = 0
    /\ nadds = 0

\* LayeredMemory.add_memory; the clock may or may not have advanced since
\* the previous call
AddMemory ==
    /\ nadds < MaxAdds
    /\ \E data \in DataInputs, tick \in {0, 1} :
          LET entry == create_memory_entry(data, "market_data", now + tick)
          IN  /\ now' = now + tick
              /\ short_term' = maintain_memory_size(Append(short_term, entry),
                                                    max_short_term)
              /\ long_term' =
                    maintain_memory_size(
                        IF entry.importance_score >= relevance_threshold
                        THEN Append(long_term, entry) ELSE long_term,
                        max_long_term)
    /\ nadds' = nadds + 1
    /\ UNCHANGED <<max_short_term, max_long_term, relevance_threshold>>
    /\ UNCHANGED ledgerVars
    /\ UNCHANGED riskVars
    /\ UNCHANGED simulationVars
    /\ UNCHANGED <<processorVars, systemVars, pureVars, agentVars>>

NextMemory == AddMemory

-----------------------------------------------------------------------------
(* Risk filter (GeminiTrader._apply_risk_rules, puppy/models/llm.py) *)

\* A value of the decisions mapping.  mapping is FALSE for a value that is
\* not a dict (a string, a number, a list, null); keys are the keys present.
Decision(action, quantity, price, keys) ==
    [mapping |-> TRUE, action |-> action, quantity |-> quantity,
     price |-> price, keys |-> keys]

NotAMapping ==
    [mapping |-> FALSE, action |-> None, quantity |-> 0, price |-> 0, keys |-> {}]

AllKeys == {"action", "quantity", "price"}

WellFormed(d) ==
    d.mapping /\ d.keys = AllKeys /\ d.action \in {"buy", "sell"}

\* decisions a model response can carry for one symbol
RiskDecisionValues ==
    {Decision("buy", 3000, 100, AllKeys),
     Decision("buy", 1500, 100, AllKeys),
     Decision("buy", 10000, 100, AllKeys),
     Decision("buy", 100, 5000, AllKeys),
     Decision("buy", -100, 100, AllKeys),
     Decision("sell", 100, 100, AllKeys),
     Decision("sell", 0, 0, {"action"}),
     Decision("hold", 0, 0, {"action"}),
     Decision("buy", 0, 100, {"action", "price"}),
     Decision(None, 100, 100, {"quantity", "price"}),
     NotAMapping}

Entry(symbol, decision) == [symbol |-> symbol, decision |-> decision]

\* a mapping with at most one value per symbol, as a sequence in insertion order
DecisionMappings(values) ==
    {<< >>}
    \cup {<<Entry(s, d)>> : s \in Symbols, d \in values}
    \cup UNION {{<<Entry(s, d), Entry(t, e)>> :
                     t \in Symbols \ {s}, d \in values, e \in values} :
                 s \in Symbols}

\* (cash, total_value) pairs of the portfolio_state
RiskStates ==
    {[cash |-> 1000000, total_value |-> RInt(1000000)],
     [cash |-> 250000, total_value |-> RInt(1000000)],
     [cash |-> 250000, total_value |-> RInt(300000)]}

\* "position_size_limit = portfolio_value * 0.2"
RiskCeiling == Rat(1, 5)

\* "if max_quantity < 100" in _apply_risk_rules
RiskMinLot == 100

\* "min(max_quantity, 1000)"
MaxLot == 1000

\* "max_quantity = int(position_size_limit / decision['price'])"
MaxQuantity(limit, price) == RTrunc(RDiv(limit, RInt(price)))

\* a shrink that stops at the ceiling quantity
ShrunkQuantityUncapped(max_quantity) == max_quantity

\* "decision['quantity'] = min(max_quantity, 1000)"
ShrunkQuantity(max_quantity) == Min(max_quantity, MaxLot)

\* what the loop body does with one decision: "raised" when the body raises
\* KeyError or TypeError (caught, the decision is skipped), "dropped" on
\* "continue", "kept" when the decision is stored in filtered_decisions
RiskOutcome(status, d) == [status |-> status, decision |-> d]

\* a filter that does not compare the cost with the remaining cash
RiskOneCashUnchecked(d, available_cash, limit) ==
    IF ~d.mapping \/ "action" \notin d.keys THEN RiskOutcome("raised", d)
    ELSE IF d.action # "buy" THEN RiskOutcome("kept", d)
    ELSE IF ~({"quantity", "price"} \subseteq d.keys) THEN RiskOutcome("raised", d)
    ELSE LET cost == d.quantity * d.price
         IN  IF RLess(limit, RInt(cost))
             THEN LET max_quantity == MaxQuantity(limit, d.price)
                  IN  IF max_quantity < RiskMinLot THEN RiskOutcome("dropped", d)
                      ELSE RiskOutcome("kept",
                               [d EXCEPT !.quantity = ShrunkQuantity(max_quantity)])
             ELSE RiskOutcome("kept", d)

\* lines 229-245 for one decision
RiskOne(d, available_cash, limit) ==
    IF ~d.mapping \/ "action" \notin d.keys THEN RiskOutcome("raised", d)
    ELSE IF d.action # "buy" THEN RiskOutcome("kept", d)
    ELSE IF ~({"quantity", "price"} \subseteq d.keys) THEN RiskOutcome("raised", d)
    ELSE LET cost == d.quantity * d.price
         IN  IF cost > available_cash THEN RiskOutcome("dropped", d)
             ELSE IF RLess(limit, RInt(cost))
             THEN LET max_quantity == MaxQuantity(limit, d.price)
                  IN  IF max_quantity < RiskMinLot THEN RiskOutcome("dropped", d)
                      ELSE RiskOutcome("kept",
                               [d EXCEPT !.quantity = ShrunkQuantity(max_quantity)])
             ELSE RiskOutcome("kept", d)

\* the for loop, lines 227-249; available_cash is consumed by the kept buys
RECURSIVE RiskLoop(_, _, _)
RiskLoop(ds, available_cash, limit) ==
    IF ds = << >> THEN << >>
    ELSE LET e == Head(ds)
             o == RiskOne(e.decision, available_cash, limit)
             spent == IF o.status = "kept" /\ o.decision.action = "buy"
                      THEN o.decision.quantity * o.decision.price ELSE 0
         IN  <<[symbol |-> e.symbol, decision |-> e.decision,
                available_cash |-> available_cash, limit |-> limit,
                status |-> o.status, out |-> o.decision]>>
             \o RiskLoop(Tail(ds), available_cash - spent, limit)

\* GeminiTrader._apply_risk_rules, as the trace of its loop
apply_risk_rules(ds, state) ==
    RiskLoop(ds, state.cash, RMul(state.total_value, RiskCeiling))

IsKept(t) == t.status = "kept"

\* the returned filtered_decisions
Filtered(trace) ==
    LET kept == SelectSeq(trace, IsKept)
    IN  [i \in 1..Len(kept) |-> Entry(kept[i].symbol, kept[i].out)]

\* no call of the filter in progress
RiskIdle ==
    /\ decisions = << >>
    /\ portfolio_state = [cash |-> 0, total_value |-> RInt(0)]
    /\ risk_trace = << >>
    /\ risk_done = FALSE

\* the arguments of a call
RiskCalled ==
    /\ decisions \in DecisionMappings(RiskDecisionValues)
    /\ portfolio_state \in RiskStates
    /\ risk_trace = << >>
    /\ risk_done = FALSE

ApplyRiskRules ==
    /\ ~risk_done
    /\ risk_trace' = apply_risk_rules(decisions, portfolio_state)
    /\ risk_done' = TRUE
    /\ UNCHANGED <<decisions, portfolio_state>>
    /\ UNCHANGED ledgerVars
    /\ UNCHANGED memoryVars
    /\ UNCHANGED simulationVars
    /\ UNCHANGED <<processorVars, systemVars, pureVars, agentVars>>

NextRisk == ApplyRiskRules

-----------------------------------------------------------------------------
(* Decision strategies (puppy/models/llm.py, puppy/models/rule_based_trader.py) *)

\* a row of market_data["data"] as Simulation.run and TradingAgent.make_decisions
\* build it; Absent marks None
MarketRow(symbol, close, volume, volume_ma, daily_return, rsi, ma_20, ma_50) ==
    [Symbol |-> symbol, Close |-> close, Volume |-> volume, Volume_MA |-> volume_ma,
     Daily_Return |-> daily_return, RSI |-> rsi, ma_20 |-> ma_20, ma_50 |-> ma_50]

\* the row the live loop builds from a fetched price (lines 218-242)
LiveRow(symbol, price) == MarketRow(symbol, price, 0, Absent, 0, 50, Absent, Absent)

\* rows of the historical data: before the averages exist, a buy signal, a
\* sell signal, and an eventful row
RowEarly(symbol) == MarketRow(symbol, 50, 100, Absent, 0, 50, Absent, Absent)
RowBuy(symbol) == MarketRow(symbol, 50, 100, 100, 0, 45, 48, 48)
RowSell(symbol) == MarketRow(symbol, 60, 100, 100, 0, 75, 50, 50)
RowEvent(symbol) == MarketRow(symbol, 50, 200, 100, 0, 20, 45, 48)

\* LayeredMemory.retrieve_relevant_memories: short-term entries at or above
\* the threshold, then long-term ones
RECURSIVE RelevantOf(_, _)
RelevantOf(tier, threshold) ==
    IF tier = << >> THEN << >>
    ELSE (IF Head(tier).importance_score >= threshold THEN <<Head(tier)>> ELSE << >>)
         \o RelevantOf(Tail(tier), threshold)

retrieve_relevant_memories(short, long, threshold) ==
    RelevantOf(short, threshold) \o RelevantOf(long, threshold)

\* GeminiTrader._prepare_context: the exception it raises, or "none".
\* Line 121 compares stock_data["20d_MA"] > stock_data["50d_MA"] and line 122
\* multiplies stock_data["Volume_MA"] by 1.5 (TypeError on None); line 137
\* reads mem["text"], a key no memory entry has (KeyError)
prepare_context_error(rows, memories) ==
    IF \E i \in 1..Len(rows) :
          \/ rows[i].ma_20 = Absent
          \/ rows[i].ma_50 = Absent
          \/ rows[i].Volume_MA = Absent
    THEN "TypeError"
    ELSE IF memories # << >> THEN "KeyError"
    ELSE "none"

\* decisions[symbol] = decision on a dict kept as a sequence: an existing key
\* keeps its place
RECURSIVE Put(_, _, _)
Put(mapping, symbol, decision) ==
    IF mapping = << >> THEN <<Entry(symbol, decision)>>
    ELSE IF Head(mapping).symbol = symbol
    THEN <<Entry(symbol, decision)>> \o Tail(mapping)
    ELSE <<Head(mapping)>> \o Put(Tail(mapping), symbol, decision)

\* A model response.  json is TRUE when json.loads gives a dict (value);
\* otherwise the text is scanned line by line (lines).  A line is a symbol
\* header (upper case, under 20 characters) or carries an action word, a
\* "<n> shares" quantity and a rupee price, each of which may be absent.
JsonResponse(mapping) == [json |-> TRUE, value |-> mapping, lines |-> << >>]

TextResponse(lines) == [json |-> FALSE, value |-> << >>, lines |-> lines]

HeaderLine(symbol) ==
    [header |-> TRUE, symbol |-> symbol, word |-> None,
     has_quantity |-> FALSE, quantity |-> 0, has_price |-> FALSE, price |-> 0]

ActionLine(word, has_quantity, quantity, has_price, price) ==
    [header |-> FALSE, symbol |-> None, word |-> word,
     has_quantity |-> has_quantity, quantity |-> quantity,
     has_price |-> has_price, price |-> price]

\* lines 176-212
RECURSIVE ScanLines(_, _, _)
ScanLines(lines, current_symbol, found) ==
    IF lines = << >> THEN found
    ELSE LET line == Head(lines)
         IN  IF line.header THEN ScanLines(Tail(lines), line.symbol, found)
             ELSE IF current_symbol # None /\ line.word \in {"buy", "sell"}
                     /\ line.has_quantity /\ line.has_price
             THEN ScanLines(Tail(lines), current_symbol,
                            Put(found, current_symbol,
                                Decision(line.word, line.quantity, line.price, AllKeys)))
             ELSE ScanLines(Tail(lines), current_symbol, found)

\* GeminiTrader._parse_decisions
parse_decisions(response) ==
    IF response.json THEN response.value
    ELSE ScanLines(response.lines, None, << >>)

\* outcome of a strategy call: the exception raised to the caller ("none"
\* when it returns) and the decisions returned
Decided(error, mapping) == [error |-> error, decisions |-> mapping]

\* GeminiTrader.make_decision; model_fails stands for chat.send_message raising
gemini_make_decision(rows, state, memories, model_fails, response) ==
    LET error == prepare_context_error(rows, memories)
    IN  IF error # "none" THEN Decided(error, << >>)
        ELSE IF model_fails THEN Decided("none", << >>)
        ELSE Decided("none",
                     Filtered(apply_risk_rules(parse_decisions(response), state)))

\* math.floor of a rational
RFloor(a) == a.n \div a.d

Max(a, b) == IF a > b THEN a ELSE b

\* the two clamps exchanged
calculate_position_size_exchanged(portfolio_value, current_price) ==
    LET quantity == RFloor(RDiv(RMul(portfolio_value, Rat(1, 10)), RInt(current_price)))
    IN  Min(100, Max(quantity, 2000))

\* RuleBasedTrader.calculate_position_size
calculate_position_size(portfolio_value, current_price) ==
    LET quantity == RFloor(RDiv(RMul(portfolio_value, Rat(1, 10)), RInt(current_price)))
    IN  Max(100, Min(quantity, 2000))

\* the buy conditions, lines 53-56
RuleBuySignal(row) ==
    LET p  == RInt(row.Close)
        m20 == RInt(row.ma_20)
        m50 == RInt(row.ma_50)
        volume_signal ==
            IF row.Volume_MA # Absent /\ row.Volume_MA # 0
            THEN RLess(RMul(RInt(row.Volume_MA), Rat(11, 10)), RInt(row.Volume))
            ELSE TRUE
    IN  \/ row.RSI < 50 /\ row.Close > row.ma_20
        \/ row.Close > row.ma_20 /\ RLess(p, RMul(m50, Rat(105, 100)))
        \/ row.Close > row.ma_20 /\ row.RSI < 60 /\ volume_signal
        \/ row.Close > row.ma_20 /\ RLess(p, RMul(m20, Rat(102, 100)))

\* the sell conditions, lines 64-72
RuleSellSignal(row, position) ==
    LET p == RInt(row.Close)
        profit_pct == RDiv(RSub(p, position.price), position.price)
    IN  \/ row.RSI > 70
        \/ row.Close < row.ma_20
        \/ RLess(RMul(RInt(row.ma_50), Rat(108, 100)), p)
        \/ RLess(profit_pct, Rat(-15, 1000))
        \/ RLess(Rat(2, 100), profit_pct)

\* the loop body without the test of the averages
RuleOneAveragesUnchecked(row, state, found) ==
    IF row.Symbol \notin Held(state.positions)
    THEN IF RuleBuySignal(row)
         THEN Put(found, row.Symbol,
                  Decision("buy", calculate_position_size(state.total_value, row.Close),
                           row.Close, AllKeys))
         ELSE found
    ELSE IF RuleSellSignal(row, state.positions[row.Symbol])
    THEN Put(found, row.Symbol,
             Decision("sell", state.positions[row.Symbol].quantity, row.Close, AllKeys))
    ELSE found

\* the loop body of RuleBasedTrader.make_decision for one row
RuleOne(row, state, found) ==
    IF row.ma_20 = Absent \/ row.ma_50 = Absent THEN found
    ELSE IF row.Symbol \notin Held(state.positions)
    THEN IF RuleBuySignal(row)
         THEN Put(found, row.Symbol,
                  Decision("buy", calculate_position_size(state.total_value, row.Close),
                           row.Close, AllKeys))
         ELSE found
    ELSE IF RuleSellSignal(row, state.positions[row.Symbol])
    THEN Put(found, row.Symbol,
             Decision("sell", state.positions[row.Symbol].quantity, row.Close, AllKeys))
    ELSE found

RECURSIVE RuleLoop(_, _, _)
RuleLoop(rows, state, found) ==
    IF rows = << >> THEN found
    ELSE RuleLoop(Tail(rows), state, RuleOne(Head(rows), state, found))

\* RuleBasedTrader.make_decision
rule_make_decision(rows, state) == Decided("none", RuleLoop(rows, state, << >>))

-----------------------------------------------------------------------------
(* Functions examined on their own: each is called once with each input *)

NotReturned == [returned |-> FALSE]
Returned(value) == [returned |-> TRUE, value |-> value]

\* no such call is under examination
NoArgs == [function |-> "none"]
NotCalled == call_args = NoArgs /\ call_result = NotReturned

\* portfolio_state["total_value"] and stock_data["Close"] as make_decision
\* passes them: values around both clamps, for dear and cheap shares
PortfolioValues ==
    {RInt(-1000), RInt(0), RInt(9990), RInt(10000), RInt(10010), RInt(150000),
     RInt(199990), RInt(200000), RInt(200010), RInt(1000000), RInt(2500000),
     Rat(300001, 2)}

SizingPrices == {1, 7, 10, 50, 100, 150, 500, 1000, 2500}

SizingCalled ==
    /\ \E portfolio_value \in PortfolioValues, current_price \in SizingPrices :
          call_args = [function |-> "calculate_position_size",
                       portfolio_value |-> portfolio_value,
                       current_price |-> current_price]
    /\ call_result = NotReturned

\* RuleBasedTrader.calculate_position_size returns
SizingReturns ==
    /\ ~call_result.returned
    /\ call_result' = Returned(calculate_position_size(call_args.portfolio_value,
                                                       call_args.current_price))
    /\ UNCHANGED call_args
    /\ UNCHANGED <<ledgerVars, memoryVars, riskVars, simulationVars, processorVars,
                   systemVars, agentVars>>

NextSizing == SizingReturns

\* what get_real_time_price answers for a symbol: Absent for None (no price,
\* or an exception it caught), else the price as a float, which may be 0.0
PriceAnswers == {Absent, 0, 55}

ValuationCash == {0, 1000, 250000}

ValuationPositions ==
    {NoPositions,
     [s \in {"X"} |-> [quantity |-> 100, price |-> RInt(50)]],
     [s \in {"X", "Y"} |-> IF s = "X" THEN [quantity |-> 100, price |-> RInt(50)]
                                      ELSE [quantity |-> 200, price |-> Rat(121, 2)]]}

\* get_multiple_real_time_prices as "current_prices.get(symbol) or ..." reads
\* it: None and 0.0 are both false
current_prices(answers) ==
    [s \in DOMAIN answers |-> IF answers[s] = Absent THEN NoQuote ELSE answers[s]]

ValuationCalled ==
    /\ \E c \in ValuationCash, pos \in ValuationPositions,
          answers \in [Symbols -> PriceAnswers] :
          call_args = [function |-> "get_total_value", cash |-> c,
                       positions |-> pos, answers |-> answers]
    /\ call_result = NotReturned

\* Portfolio.get_total_value returns
ValuationReturns ==
    /\ ~call_result.returned
    /\ call_result' = Returned(get_total_value(call_args.cash, call_args.positions,
                                               current_prices(call_args.answers)))
    /\ UNCHANGED call_args
    /\ UNCHANGED <<ledgerVars, memoryVars, riskVars, simulationVars, processorVars,
                   systemVars, agentVars>>

NextValuation == ValuationReturns

\* a row with the short average only
RowShortOnly(symbol) == MarketRow(symbol, 50, 100, 100, 0, 45, 48, Absent)

RowKinds(symbol) ==
    {RowEarly(symbol), RowShortOnly(symbol), RowBuy(symbol), RowSell(symbol),
     RowEvent(symbol)}

\* market_data["data"]: no row, a row for X, or a row for each symbol
RuleRows ==
    {<< >>} \cup {<<x>> : x \in RowKinds("X")}
            \cup {<<x, y>> : x \in RowKinds("X"), y \in RowKinds("Y")}

\* portfolio_state: nothing held, X held, both held
RulePositions ==
    {NoPositions,
     [s \in {"X"} |-> [quantity |-> 300, price |-> RInt(50)]],
     [s \in {"X", "Y"} |-> IF s = "X" THEN [quantity |-> 300, price |-> RInt(50)]
                                      ELSE [quantity |-> 150, price |-> RInt(50)]]}

RuleCalled ==
    /\ \E rows \in RuleRows, pos \in RulePositions, total \in {50000, 1000000} :
          call_args = [function |-> "make_decision", rows |-> rows,
                       state |-> [cash |-> total, positions |-> pos,
                                  total_value |-> RInt(total)]]
    /\ call_result = NotReturned

\* RuleBasedTrader.make_decision returns
RuleReturns ==
    /\ ~call_result.returned
    /\ call_result' = Returned(rule_make_decision(call_args.rows,
                                                  call_args.state).decisions)
    /\ UNCHANGED call_args
    /\ UNCHANGED <<ledgerVars, memoryVars, riskVars, simulationVars, processorVars,
                   systemVars, agentVars>>

NextRule == RuleReturns

-----------------------------------------------------------------------------
(* Simulation (puppy/core/simulation.py) and TradingAgent (puppy/models/agent.py) *)

\* iterations of the polling loop and calls of start_non_blocking explored
MaxIterations == 2

MaxStarts == 2

\* A reading of the wall clock: the kind of day and the minute of the day (IST)
Instant(day, minute) == [day |-> day, minute |-> minute]

Instants ==
    {Instant("weekday", 600), Instant("weekday", 930), Instant("weekday", 1200),
     Instant("weekend", 600), Instant("holiday", 600)}

\* time(9, 15) and time(15, 30), as minutes of the day
MarketOpenMinute == 555
MarketCloseMinute == 930

\* RealTimeDataManager.is_market_open: the time of day only, both ends included
GateOpen(t) == MarketOpenMinute <= t.minute /\ t.minute <= MarketCloseMinute

\* MarketHours.is_market_open: weekends and holidays excluded, close excluded
CalendarOpen(t) ==
    /\ t.day = "weekday"
    /\ MarketOpenMinute <= t.minute
    /\ t.minute < MarketCloseMinute

\* historical data sets: for each date, in ascending order, the rows of the
\* watched symbols that have data
Datasets ==
    {<< <<RowBuy("X")>>, <<RowSell("X")>>, <<RowBuy("X")>> >>,
     << <<RowEarly("X")>>, <<RowBuy("X"), RowBuy("Y")>> >>,
     << <<RowEvent("X")>>, <<RowBuy("X")>> >>}

\* what get_realtime_prices yields when at least one symbol has a price
LiveRowSets == {<<LiveRow("X", 50)>>, <<LiveRow("X", 50), LiveRow("Y", 60)>>}

\* responses of the model
Responses ==
    {JsonResponse(<<Entry("X", Decision("buy", 100, 50, AllKeys))>>),
     JsonResponse(<<Entry("X", Decision("sell", 100, 60, AllKeys))>>),
     JsonResponse(<<Entry("X", Decision("sell", 0, 0, {"action"})),
                    Entry("Y", Decision("buy", 100, 50, AllKeys))>>),
     JsonResponse(<<Entry("X", NotAMapping),
                    Entry("Y", Decision("buy", 100, 50, AllKeys))>>),
     JsonResponse(<<Entry("X", Decision("hold", 0, 0, {"action"}))>>),
     TextResponse(<<HeaderLine("X"), ActionLine("buy", TRUE, 100, TRUE, 50)>>),
     TextResponse(<<ActionLine("buy", TRUE, 100, TRUE, 50),
                    HeaderLine("Y"), ActionLine("sell", TRUE, 100, FALSE, 0)>>)}

\* LayeredMemory.add_memory on given tiers
add_memory(short, long, data, timestamp, short_cap, long_cap, threshold) ==
    LET entry == create_memory_entry(data, "market_data", timestamp)
    IN  [short |-> maintain_memory_size(Append(short, entry), short_cap),
         long  |-> maintain_memory_size(
                       IF entry.importance_score >= threshold
                       THEN Append(long, entry) ELSE long, long_cap)]

\* Portfolio.get_state, the fields the strategies read
get_state(c, pos, quotes) ==
    [cash |-> c, positions |-> pos, total_value |-> get_total_value(c, pos, quotes)]

\* what one pass of the loop has done so far
NewStep(gate, calendar_open) ==
    [gate |-> gate, calendar_open |-> calendar_open,
     news |-> "none", prices |-> "none", memory_writes |-> 0,
     strategy_called |-> FALSE, model |-> "none", parsed |-> << >>,
     calls |-> << >>, clock |-> now, recalled |-> << >>,
     cash_before |-> cash, positions_before |-> positions,
     transactions_before |-> transactions]

\* the ledger call made for one decision, lines 272-298 (136-162 in backtest)
LedgerCall(op, symbol, quantity, price, ret) ==
    [op |-> op, symbol |-> symbol, quantity |-> quantity, price |-> price, ret |-> ret]

Ledger(c, pos, txs, log, calls) ==
    [cash |-> c, positions |-> pos, transactions |-> txs, trade_log |-> log,
     calls |-> calls]

AppendRow(seq, row) == IF row = NoRow THEN seq ELSE Append(seq, row)

AppendTransaction(seq, row) ==
    IF row = NoRow THEN seq
    ELSE Append(seq, TransactionRecord(row.action, row.symbol, row.quantity, row.price))

ExecuteOne(l, e, limit, quotes, market_open) ==
    LET d == e.decision
    IN  IF d.action \notin {"buy", "sell"} THEN l
        ELSE LET o == IF d.action = "buy"
                      THEN buy(l.cash, l.positions, limit, e.symbol, d.quantity, d.price,
                               [s \in Held(l.positions) |-> quotes[s]])
                      ELSE sell(l.cash, l.positions, e.symbol, d.quantity, d.price,
                                market_open)
             IN  Ledger(o.cash, o.positions,
                        AppendTransaction(l.transactions, o.row),
                        AppendRow(l.trade_log, o.row),
                        Append(l.calls,
                               LedgerCall(d.action, e.symbol, d.quantity, d.price, o.ret)))

\* the "Execute trades" loop
RECURSIVE ExecuteAll(_, _, _, _, _)
ExecuteAll(l, ds, limit, quotes, market_open) ==
    IF ds = << >> THEN l
    ELSE ExecuteAll(ExecuteOne(l, Head(ds), limit, quotes, market_open),
                    Tail(ds), limit, quotes, market_open)

\* the "Log decisions" loop: action['action'].upper(), action['quantity'] and
\* action['price'] are read outside any try
LogRaises(ds) ==
    \E i \in 1..Len(ds) : ~ds[i].decision.mapping \/ ds[i].decision.keys # AllKeys

\* Simulation.__init__ (the worker is not started yet)
SimulationConstructed(m, kind, data) ==
    /\ mode = m
    /\ trader_kind = kind
    /\ market_data = data
    /\ running = TRUE
    /\ simulation_thread = "none"
    /\ pc = "idle"
    /\ iteration = 0
    /\ starts = 0
    /\ date_index = 0
    /\ processed_dates = << >>
    /\ daily = << >>
    /\ pending = << >>
    /\ step = NewStep("unread", FALSE)
    /\ run_error = "none"
    /\ requested = "none"

\* the worker dies with an exception: "except Exception: ... raise", lines 325-327
Crash(origin) ==
    /\ pc' = "crashed"
    /\ run_error' = origin
    /\ simulation_thread' = "dead"

\* Simulation.start_non_blocking: a call while the thread is alive does
\* nothing at all; it does not set the flag either
StartNonBlocking ==
    /\ requested' = "start"
    /\ IF simulation_thread # "alive"
       THEN /\ starts < MaxStarts
            /\ starts' = starts + 1
            /\ running' = TRUE
            /\ simulation_thread' = "alive"
            /\ pc' = "top"
            /\ iteration' = 0
            /\ date_index' = 0
            /\ processed_dates' = << >>
            /\ run_error' = "none"
       ELSE UNCHANGED <<starts, running, simulation_thread, pc, iteration,
                        date_index, processed_dates, run_error>>
    /\ UNCHANGED <<mode, trader_kind, market_data, daily, pending, step>>
    /\ UNCHANGED <<ledgerVars, memoryVars, riskVars, processorVars, systemVars, pureVars, agentVars>>

\* Simulation.stop (and the SIGINT handler): the flag is cleared and the
\* thread joined for at most 5 seconds. A polling worker that is at the head
\* of its loop reads the flag and ends within the join; one that sleeps its
\* 60 seconds or is inside a step, and a backtest worker, outlast it
Stop ==
    /\ running
    /\ running' = FALSE
    /\ requested' = "stop"
    /\ IF simulation_thread = "alive" /\ pc = "top" /\ mode # "backtest"
       THEN /\ pc' = "done"
            /\ simulation_thread' = "dead"
       ELSE UNCHANGED <<simulation_thread, pc>>
    /\ UNCHANGED <<mode, trader_kind, market_data, iteration,
                   starts, date_index, processed_dates, daily, pending, step, run_error>>
    /\ UNCHANGED <<ledgerVars, memoryVars, riskVars, processorVars, systemVars, pureVars, agentVars>>

\* "while self.running:" and the market gate, lines 188-196
LoopTop ==
    /\ simulation_thread = "alive"
    /\ pc = "top"
    /\ mode # "backtest"
    /\ IF ~running
       THEN /\ pc' = "done"
            /\ simulation_thread' = "dead"
            /\ UNCHANGED <<iteration, step>>
       ELSE /\ iteration < MaxIterations
            /\ iteration' = iteration + 1
            /\ \E t \in Instants :
                  /\ step' = NewStep(IF GateOpen(t) THEN "open" ELSE "closed",
                                     CalendarOpen(t))
                  /\ pc' = IF GateOpen(t) THEN "news" ELSE "sleep"
            /\ UNCHANGED simulation_thread
    /\ UNCHANGED <<requested, mode, trader_kind, market_data, running, starts, date_index,
                   processed_dates, daily, pending, run_error>>
    /\ UNCHANGED <<ledgerVars, memoryVars, riskVars, processorVars, systemVars, pureVars, agentVars>>

\* time.sleep(60), lines 195 and 311
Sleep ==
    /\ simulation_thread = "alive"
    /\ pc = "sleep"
    /\ pc' = "top"
    /\ UNCHANGED <<requested, mode, trader_kind, market_data, running, simulation_thread,
                   iteration, starts, date_index, processed_dates, daily, pending,
                   step, run_error>>
    /\ UNCHANGED <<ledgerVars, memoryVars, riskVars, processorVars, systemVars, pureVars, agentVars>>

\* news_service.get_latest_market_news: a failing request is turned into an
\* empty list inside the scraper
FetchNews ==
    /\ simulation_thread = "alive"
    /\ pc = "news"
    /\ \E outcome \in {"fetched", "failed"} : step' = [step EXCEPT !.news = outcome]
    /\ pc' = "prices"
    /\ UNCHANGED <<requested, mode, trader_kind, market_data, running, simulation_thread,
                   iteration, starts, date_index, processed_dates, daily, pending,
                   run_error>>
    /\ UNCHANGED <<ledgerVars, memoryVars, riskVars, processorVars, systemVars, pureVars, agentVars>>

\* agent.update_memory(data): one add_memory call
MemoryWritten(data) ==
    LET m == add_memory(short_term, long_term, data, now + 1,
                        max_short_term, max_long_term, relevance_threshold)
    IN  /\ short_term' = m.short
        /\ long_term' = m.long
        /\ now' = now + 1
        /\ nadds' = nadds + 1
        /\ UNCHANGED <<max_short_term, max_long_term, relevance_threshold>>

\* get_realtime_prices, the rows, update_memory and the train-mode "continue",
\* lines 207-254.  yf.download is called outside any try; a symbol whose
\* price cannot be read gets None and no row
FetchPrices ==
    /\ simulation_thread = "alive"
    /\ pc = "prices"
    /\ \/ /\ step' = [step EXCEPT !.prices = "raised"]
          /\ Crash("yf.download")
          /\ UNCHANGED daily
          /\ UNCHANGED memoryVars
       \/ /\ step' = [step EXCEPT !.prices = "empty"]
          /\ daily' = << >>
          /\ pc' = IF mode = "train" THEN "top" ELSE "decide"
          /\ UNCHANGED <<run_error, simulation_thread>>
          /\ UNCHANGED memoryVars
       \/ \E rows \in LiveRowSets :
             /\ step' = [step EXCEPT !.prices = "fetched", !.memory_writes = 1]
             /\ daily' = rows
             /\ MemoryWritten(rows)
             /\ pc' = IF mode = "train" THEN "top" ELSE "decide"
             /\ UNCHANGED <<run_error, simulation_thread>>
    /\ UNCHANGED <<requested, mode, trader_kind, market_data, running, iteration, starts,
                   date_index, processed_dates, pending>>
    /\ UNCHANGED <<ledgerVars, riskVars, processorVars, systemVars, pureVars, agentVars>>

\* the next date of the backtest, lines 72-119; the loop does not read
\* self.running
BacktestNext ==
    /\ simulation_thread = "alive"
    /\ pc = "top"
    /\ mode = "backtest"
    /\ IF date_index = Len(market_data)
       THEN /\ pc' = "done"
            /\ simulation_thread' = "dead"
            /\ UNCHANGED <<iteration, date_index, processed_dates, daily, step>>
            /\ UNCHANGED memoryVars
       ELSE /\ iteration' = iteration + 1
            /\ date_index' = date_index + 1
            /\ processed_dates' = Append(processed_dates, date_index + 1)
            /\ daily' = market_data[date_index + 1]
            /\ step' = [NewStep("unread", FALSE) EXCEPT !.memory_writes = 1]
            /\ MemoryWritten(market_data[date_index + 1])
            /\ pc' = "decide"
            /\ UNCHANGED simulation_thread
    /\ UNCHANGED <<requested, mode, trader_kind, market_data, running, starts, pending, run_error>>
    /\ UNCHANGED <<ledgerVars, riskVars, processorVars, systemVars, pureVars, agentVars>>

\* TradingAgent.make_decisions from line 113 on: the second update_memory of
\* the step, the recall, and the strategy call
AgentDecided(rows, quotes, model_fails, response) ==
    LET m == add_memory(short_term, long_term, rows, now + 1,
                        max_short_term, max_long_term, relevance_threshold)
        memories == retrieve_relevant_memories(m.short, m.long, relevance_threshold)
        state == get_state(cash, positions, [s \in Held(positions) |-> quotes[s]])
        out == IF trader_kind = "gemini"
               THEN gemini_make_decision(rows, state, memories, model_fails, response)
               ELSE rule_make_decision(rows, state)
        asked == trader_kind = "gemini" /\ out.error = "none"
    IN  /\ MemoryWritten(rows)
        /\ step' = [step EXCEPT
                      !.memory_writes = @ + 1,
                      !.strategy_called = TRUE,
                      !.recalled = [i \in 1..Len(memories) |-> memories[i].timestamp],
                      !.model = IF ~asked THEN "none"
                                ELSE IF model_fails THEN "failed" ELSE "called",
                      !.parsed = IF asked /\ ~model_fails
                                 THEN parse_decisions(response) ELSE << >>]
        /\ IF out.error # "none"
           THEN Crash("_prepare_context") /\ UNCHANGED pending
           ELSE /\ pending' = out.decisions
                /\ pc' = "log"
                /\ UNCHANGED <<run_error, simulation_thread>>

\* the quotes RealTimeDataManager supplies while a step runs: every symbol
\* quoted at the same level, or none quoted
StepQuotes == {[s \in Symbols |-> q] : q \in Quotes}

NoResponse == TextResponse(<< >>)

AgentDecides(rows) ==
    \E quotes \in StepQuotes :
        IF trader_kind = "gemini"
        THEN \/ AgentDecided(rows, quotes, TRUE, NoResponse)
             \/ \E response \in Responses : AgentDecided(rows, quotes, FALSE, response)
        ELSE AgentDecided(rows, quotes, FALSE, NoResponse)

\* agent.make_decisions, lines 122-126 and 256-260.  In the live loop every
\* row of daily_data is stamped with its own datetime.now() and the lookup
\* uses a later one: a KeyError gives {} unless the clock readings coincide;
\* an empty frame has no "Date" level and xs raises TypeError
MakeDecisions ==
    /\ simulation_thread = "alive"
    /\ pc = "decide"
    /\ IF mode = "backtest" THEN AgentDecides(daily)
       ELSE IF daily = << >>
       THEN /\ Crash("daily_data.xs")
            /\ UNCHANGED <<pending, step>>
            /\ UNCHANGED memoryVars
       ELSE \/ /\ pending' = << >>
               /\ pc' = "log"
               /\ UNCHANGED <<run_error, simulation_thread, step>>
               /\ UNCHANGED memoryVars
            \/ AgentDecides(daily)
    /\ UNCHANGED <<requested, mode, trader_kind, market_data, running, iteration, starts,
                   date_index, processed_dates, daily>>
    /\ UNCHANGED <<ledgerVars, riskVars, processorVars, systemVars, pureVars, agentVars>>

\* lines 129-133 and 263-269
LogDecisions ==
    /\ simulation_thread = "alive"
    /\ pc = "log"
    /\ IF LogRaises(pending)
       THEN Crash("log decisions")
       ELSE /\ pc' = "execute"
            /\ UNCHANGED <<run_error, simulation_thread>>
    /\ UNCHANGED <<requested, mode, trader_kind, market_data, running, iteration, starts,
                   date_index, processed_dates, daily, pending, step>>
    /\ UNCHANGED <<ledgerVars, memoryVars, riskVars, processorVars, systemVars, pureVars, agentVars>>

\* lines 136-175 and 272-311: the trades, the results, the summary
ExecuteTrades ==
    /\ simulation_thread = "alive"
    /\ pc = "execute"
    /\ \E quotes \in StepQuotes, market_open \in {GateOpen(t) : t \in Instants} :
          LET l == ExecuteAll(Ledger(cash, positions, transactions, trade_log, step.calls),
                              pending, position_size_limit, quotes, market_open)
          IN  /\ cash' = l.cash
              /\ positions' = l.positions
              /\ transactions' = l.transactions
              /\ trade_log' = l.trade_log
              /\ step' = [step EXCEPT !.calls = l.calls]
    /\ pending' = << >>
    /\ pc' = IF mode = "backtest" THEN "top" ELSE "sleep"
    /\ UNCHANGED <<initial_capital, position_size_limit, current_state, call, ncalls>>
    /\ UNCHANGED <<requested, mode, trader_kind, market_data, running, simulation_thread,
                   iteration, starts, date_index, processed_dates, daily, run_error>>
    /\ UNCHANGED <<memoryVars, riskVars, processorVars, systemVars, pureVars, agentVars>>

NextSimulation ==
    \/ StartNonBlocking
    \/ Stop
    \/ LoopTop
    \/ Sleep
    \/ FetchNews
    \/ FetchPrices
    \/ BacktestNext
    \/ MakeDecisions
    \/ LogDecisions
    \/ ExecuteTrades

-----------------------------------------------------------------------------
(* The two market-hours tests applied to one reading of the clock *)

\* minutes of the day around the opening and the close
ClockMinutes ==
    {0, 300, 539, 540, 554, 555, 556, 600, 780, 900, 929, 930, 931, 944, 945, 946,
     1200, 1439}

ClockReadings == {Instant(day, minute) : day \in {"weekday", "weekend", "holiday"},
                                         minute \in ClockMinutes}

GatesCalled ==
    /\ \E t \in ClockReadings : call_args = [function |-> "is_market_open", t |-> t]
    /\ call_result = NotReturned

\* RealTimeDataManager.is_market_open and MarketHours.is_market_open, both
\* reading the same clock
GatesReturn ==
    /\ call_args.function = "is_market_open"
    /\ ~call_result.returned
    /\ call_result' = Returned([gate |-> GateOpen(call_args.t),
                                calendar |-> CalendarOpen(call_args.t)])
    /\ UNCHANGED call_args
    /\ UNCHANGED <<ledgerVars, memoryVars, riskVars, simulationVars, processorVars,
                   systemVars, agentVars>>

NextGates == GatesReturn

-----------------------------------------------------------------------------
(* TradingAgent.make_decisions (puppy/models/agent.py) called date after date *)

\* self.min_hold_days
MinHoldDays == 1

HoursPerDay == 24

\* current_date of a call, in hours from the first
AgentDates == {0, 12, 24, 36}

\* the rows daily_data holds for the date
AgentRowSets ==
    {<<RowBuy("X"), RowBuy("Y")>>, <<RowSell("X"), RowBuy("Y")>>, <<RowBuy("Y")>>}

\* portfolio_state of a call: nothing held, or X held
AgentPositions ==
    {NoPositions, [s \in {"X"} |-> [quantity |-> 300, price |-> RInt(50)]]}

NoAgentCall ==
    [date |-> -1, before |-> [s \in Symbols |-> Absent], given |-> << >>,
     raised |-> FALSE, decisions |-> << >>]

\* TradingAgent.__init__
AgentConstructed ==
    /\ last_trade_date = [s \in Symbols |-> Absent]
    /\ agent_call = NoAgentCall

\* lines 76-82: (current_date - self.last_trade_date[symbol]).days, the whole
\* days of the difference
InHoldingPeriod(symbol, current_date, dates) ==
    /\ dates[symbol] # Absent
    /\ (current_date - dates[symbol]) \div HoursPerDay < MinHoldDays

\* the rows that reach market_data["data"]
RECURSIVE RowsGiven(_, _, _)
RowsGiven(rows, current_date, dates) ==
    IF rows = << >> THEN << >>
    ELSE (IF InHoldingPeriod(Head(rows).Symbol, current_date, dates)
          THEN << >> ELSE <<Head(rows)>>)
         \o RowsGiven(Tail(rows), current_date, dates)

\* lines 133-134
RECURSIVE Stamped(_, _, _)
Stamped(dates, found, current_date) ==
    IF found = << >> THEN dates
    ELSE Stamped([dates EXCEPT ![Head(found).symbol] = current_date],
                 Tail(found), current_date)

\* TradingAgent.make_decisions
AgentMakeDecisions ==
    \E current_date \in AgentDates, rows \in AgentRowSets, pos \in AgentPositions,
       model_fails \in BOOLEAN, response \in Responses \cup {NoResponse} :
        /\ current_date > agent_call.date
        /\ trader_kind = "rule_based" => (~model_fails /\ response = NoResponse)
        /\ LET given == RowsGiven(rows, current_date, last_trade_date)
               m == add_memory(short_term, long_term, given, now + 1,
                               max_short_term, max_long_term, relevance_threshold)
               memories == retrieve_relevant_memories(m.short, m.long,
                                                      relevance_threshold)
               state == get_state(SimulationInitialCapital, pos,
                                  [s \in Held(pos) |-> NoQuote])
               out == IF trader_kind = "gemini"
                      THEN gemini_make_decision(given, state, memories, model_fails,
                                                response)
                      ELSE rule_make_decision(given, state)
           IN  /\ MemoryWritten(given)
               /\ last_trade_date' = Stamped(last_trade_date, out.decisions,
                                             current_date)
               /\ agent_call' = [date |-> current_date, before |-> last_trade_date,
                                 given |-> given, raised |-> out.error # "none",
                                 decisions |-> out.decisions]
    /\ UNCHANGED <<ledgerVars, riskVars, simulationVars, processorVars, systemVars,
                   pureVars>>

NextAgent == AgentMakeDecisions

-----------------------------------------------------------------------------
(* DataProcessor (app/utils/data_processor.py) and its TradingSimulator
   (app/utils/trading.py) *)

MaxProcessorStarts == 2

\* the modes main.py passes to start()
StartModes == {"test", "real"}

\* config['initial_capital'] of the start form, and the amount of a reset
ProcessorCapital == 1000000
ResetCapitals == {100000}

\* the symbol the simulator draws here, and its price (prices are
\* held fixed here: _update_prices changes no cash, quantity or transaction)
TradeSymbols == {"RELIANCE"}
StockPrice == 1000

\* "Max 20% of initial capital per position"
MaxPositionPct == 20

\* len(self.transactions) is followed up to this many
MaxSimTrades == 2

\* TradingSimulator.__init__ when no state file exists
NewBook(capital) ==
    [capital |-> capital, initial_capital |-> capital,
     portfolio |-> [s \in TradeSymbols |-> 0], transactions |-> 0]

NoTrade == [action |-> "NONE", symbol |-> "NONE", quantity |-> 0]
NoStart == [mode |-> "none", failed |-> FALSE, raised |-> FALSE, thread |-> FALSE]

\* DataProcessor.__init__ (it assigns no finmem_process attribute); no
\* data/trading_state.json exists yet
ProcessorConstructed ==
    /\ processor_running = FALSE
    /\ processor_mode = "none"
    /\ simulator = 0
    /\ data_thread = 0
    /\ workers = << >>
    /\ stop_raised = FALSE
    /\ books = << >>
    /\ state_file = "absent"
    /\ start_outcome = NoStart

\* a thread running _run_test_updates or _run_real_updates: where it is, the
\* TradingSimulator whose update() it is inside (0 when it is in none), the
\* trade _generate_trade has selected and not yet applied, and whether a
\* reset_capital ran on that simulator since the selection
Worker(kind, at, target, trade, reset_during) ==
    [kind |-> kind, at |-> at, target |-> target, pending |-> trade,
     reset_during |-> reset_during]

\* start(mode, config): returns at once while running; otherwise self.mode
\* and self.running = True are assigned before any collaborator is built.
\* Real mode builds FinMemManager inside try/except, which clears running and
\* raises. Test mode builds TradingSimulator outside any try: its __init__
\* ends in _load_state, whose json.load raises on a truncated state file,
\* and the exception leaves start with running still True and no thread.
ProcessorStart ==
    /\ ~processor_running
    /\ Len(workers) < MaxProcessorStarts
    /\ \E start_mode \in StartModes, fails \in BOOLEAN :
          LET failed == fails \/ (start_mode = "test" /\ state_file = "corrupt")
          IN  /\ processor_mode' = start_mode
              /\ processor_running' = (start_mode = "test" \/ ~failed)
              /\ start_outcome' = [mode |-> start_mode, failed |-> failed,
                                   raised |-> failed, thread |-> ~failed]
              /\ IF failed
                   THEN UNCHANGED <<simulator, data_thread, workers, books>>
                   ELSE /\ data_thread' = Len(workers) + 1
                        /\ workers' = Append(workers,
                                        Worker(start_mode, "while", 0, NoTrade, FALSE))
                        /\ IF start_mode = "test"
                             THEN /\ books' = Append(books, NewBook(ProcessorCapital))
                                  /\ simulator' = Len(books) + 1
                             ELSE UNCHANGED <<simulator, books>>
    /\ UNCHANGED <<stop_raised, state_file>>
    /\ UNCHANGED <<ledgerVars, memoryVars, riskVars, simulationVars, systemVars, pureVars, agentVars>>

\* stop(): returns at once when not running; otherwise clears the flag and
\* then reads self.finmem_process, which neither start mode has assigned:
\* AttributeError, so the join and the clearing of the fields are not reached
ProcessorStop ==
    /\ processor_running
    /\ processor_running' = FALSE
    /\ stop_raised' = TRUE
    /\ start_outcome' = NoStart
    /\ UNCHANGED <<processor_mode, simulator, data_thread, workers, books, state_file>>
    /\ UNCHANGED <<ledgerVars, memoryVars, riskVars, simulationVars, systemVars, pureVars, agentVars>>

\* TradingSimulator.reset_capital
reset_book(book, new_capital) ==
    [capital |-> new_capital, initial_capital |-> new_capital,
     portfolio |-> [s \in TradeSymbols |-> 0], transactions |-> 0]

\* DataProcessor.reset_capital(new_capital), run by the calling thread. In
\* real mode FinMemManager.reset_capital catches its own failure and no
\* ledger changes. Otherwise, when self.simulator is set, the simulator is
\* reset in place with no lock, whatever the update thread is doing, and the
\* closing _save_state raises on the datetime in its state, leaving the file
\* truncated.
ProcessorResetCapital ==
    /\ \E new_capital \in ResetCapitals :
          IF processor_mode # "real" /\ simulator # 0
            THEN /\ books' = [books EXCEPT
                                ![simulator] = reset_book(@, new_capital)]
                 /\ state_file' = "corrupt"
                 /\ workers' = [w \in DOMAIN workers |->
                       IF workers[w].at = "trade" /\ workers[w].target = simulator
                         THEN [workers[w] EXCEPT !.reset_during = TRUE]
                         ELSE workers[w]]
            ELSE UNCHANGED <<books, state_file, workers>>
    /\ start_outcome' = NoStart
    /\ UNCHANGED <<processor_running, processor_mode, simulator, data_thread, stop_raised>>
    /\ UNCHANGED <<ledgerVars, memoryVars, riskVars, simulationVars, systemVars, pureVars, agentVars>>

WorkerAt(w, at, target, trade) ==
    /\ workers' = [workers EXCEPT
                     ![w] = Worker(workers[w].kind, at, target, trade, FALSE)]
    /\ UNCHANGED <<processor_running, processor_mode, simulator, data_thread,
                   stop_raised, start_outcome>>
    /\ UNCHANGED <<ledgerVars, memoryVars, riskVars, simulationVars, systemVars, pureVars, agentVars>>

\* _run_test_updates, _run_real_updates: "while self.running:"
WhileRunning(w) ==
    /\ workers[w].at = "while"
    /\ WorkerAt(w, IF processor_running THEN "body" ELSE "dead", 0, NoTrade)
    /\ UNCHANGED <<books, state_file>>

\* _update_market_status(); a test thread then passes the calendar gate and,
\* when open, enters self.simulator.update() on the simulator the field holds
\* now; a real thread reads FinMemManager.update() and sleeps
EnterUpdate(w) ==
    /\ workers[w].at = "body"
    /\ \E open \in BOOLEAN :
          IF open /\ workers[w].kind = "test"
            THEN WorkerAt(w, "update", simulator, NoTrade)
            ELSE WorkerAt(w, "sleep", 0, NoTrade)
    /\ UNCHANGED <<books, state_file>>

\* _generate_trade up to the choice of the symbol (SELL) or up to the test
\* "value > self.capital" (BUY): the action, symbol and quantity it goes on
\* with
max_quantity(book) ==
    Min(book.capital, (book.initial_capital * MaxPositionPct) \div 100) \div StockPrice

Selections(book) ==
    LET held == {s \in TradeSymbols : book.portfolio[s] > 0}
        free == TradeSymbols \ held
    IN  {[action |-> "BUY", symbol |-> s, quantity |-> max_quantity(book)] :
            s \in {x \in free : max_quantity(book) > 0}}
        \cup {[action |-> "SELL", symbol |-> s, quantity |-> 0] : s \in held}

\* update(): _update_prices, then _should_trade and the first part of
\* _generate_trade
SelectTrade(w) ==
    /\ workers[w].at = "update"
    /\ books[workers[w].target].transactions < MaxSimTrades
    /\ \E trade \in Selections(books[workers[w].target]) :
          WorkerAt(w, "trade", workers[w].target, trade)
    /\ UNCHANGED <<books, state_file>>

\* the rest of _generate_trade on the simulator as it is now. BUY debits the
\* cash without a second test. SELL reads self.portfolio[symbol]: KeyError
\* when the symbol is no longer held, else it sells 1..held shares.
sold_simulated(book, symbol, quantity) ==
    [book EXCEPT !.capital = @ + quantity * StockPrice,
                 !.portfolio[symbol] = @ - quantity,
                 !.transactions = @ + 1]

apply_trade(book, trade) ==
    IF trade.action = "BUY"
      THEN {[book EXCEPT !.capital = @ - trade.quantity * StockPrice,
                         !.portfolio[trade.symbol] = @ + trade.quantity,
                         !.transactions = @ + 1]}
      ELSE IF book.portfolio[trade.symbol] = 0
             THEN {book}
             ELSE {sold_simulated(book, trade.symbol, q) :
                      q \in {1, book.portfolio[trade.symbol]}}

\* the trade is applied and recorded; update() then sets last_update and its
\* _save_state raises on that datetime, leaving the state file truncated; the
\* thread's except branch logs and sleeps
ApplyTrade(w) ==
    /\ workers[w].at = "trade"
    /\ \E after \in apply_trade(books[workers[w].target], workers[w].pending) :
          books' = [books EXCEPT ![workers[w].target] = after]
    /\ state_file' = "corrupt"
    /\ WorkerAt(w, "sleep", 0, NoTrade)

\* update() without a trade: last_update is set and _save_state raises
LeaveUpdate(w) ==
    /\ workers[w].at = "update"
    /\ state_file' = "corrupt"
    /\ UNCHANGED books
    /\ WorkerAt(w, "sleep", 0, NoTrade)

\* time.sleep returns
WorkerWakes(w) ==
    /\ workers[w].at = "sleep"
    /\ WorkerAt(w, "while", 0, NoTrade)
    /\ UNCHANGED <<books, state_file>>

NextProcessor ==
    \/ ProcessorStart
    \/ ProcessorStop
    \/ ProcessorResetCapital
    \/ \E w \in DOMAIN workers : WhileRunning(w)
    \/ \E w \in DOMAIN workers : EnterUpdate(w)
    \/ \E w \in DOMAIN workers : SelectTrade(w)
    \/ \E w \in DOMAIN workers : ApplyTrade(w)
    \/ \E w \in DOMAIN workers : LeaveUpdate(w)
    \/ \E w \in DOMAIN workers : WorkerWakes(w)

-----------------------------------------------------------------------------
(* TradingSystem (trading_system.py) *)

MaxProcessed == 3

\* len(data) of the history DataCollector.get_historical_data answers
Windows == {0, 10, 49, 50, 60}

MinBars == 50

IndicatorNames ==
    {"sma_20", "sma_50", "ema_12", "ema_26", "rsi", "macd", "macd_signal",
     "macd_histogram", "bb_upper", "bb_lower", "bb_middle", "support",
     "resistance", "volume_sma", "current_volume", "current_price",
     "price_change_1d", "price_change_5d"}

\* the last close of the history; 0 is what a NaN close is replaced with
Closes == {0, 100, 200}

\* what DataCollector.get_current_price answers when the book is valued
CurrentPrices == {100, 200}

EngineInitialCapital == 1000000

\* PaperTradingEngine.position_size_pct, in percent
PositionSizePct == 5

MaxPositions == 10

NoPosition == [quantity |-> 0, avg_price |-> RInt(0)]

InPortfolio == {s \in Symbols : portfolio[s].quantity # 0}

NotProcessed ==
    [symbol |-> None, bars |-> 0, indicators |-> {}, cash_before |-> EngineInitialCapital,
     portfolio_before |-> [s \in Symbols |-> NoPosition], memory_before |-> 0,
     decisions_before |-> 0, trades_before |-> 0]

\* TradingSystem.__init__
SystemConstructed ==
    /\ cash_balance = EngineInitialCapital
    /\ portfolio = [s \in Symbols |-> NoPosition]
    /\ memory_log = << >>
    /\ decision_calls = 0
    /\ saved_trades = << >>
    /\ processed = NotProcessed
    /\ nprocessed = 0

\* TechnicalAnalyzer.calculate_indicators: the keys of the result for a
\* history of bars rows; raises says a computation in the try block raised
calculate_indicators_short(bars, raises) ==
    IF bars = 0 \/ bars < 20 THEN {}
    ELSE IF raises THEN {}
    ELSE IF bars < MinBars THEN IndicatorNames \ {"sma_50"}
    ELSE IndicatorNames

calculate_indicators(bars, raises) ==
    IF bars = 0 \/ bars < MinBars THEN {}
    ELSE IF raises THEN {}
    ELSE IndicatorNames

\* PaperTradingEngine.get_portfolio_value, every holding valued at quote
RECURSIVE PortfolioValue(_, _, _)
PortfolioValue(book, quote, S) ==
    IF S = {} THEN 0
    ELSE LET s == CHOOSE x \in S : TRUE
         IN  book[s].quantity * quote + PortfolioValue(book, quote, S \ {s})

\* PaperTradingEngine.calculate_position_size
position_size(price, portfolio_value) ==
    Max(1, (portfolio_value * PositionSizePct) \div (100 * price))

\* PaperTradingEngine.can_buy
can_buy(price, quantity) ==
    cash_balance >= price * quantity /\ Cardinality(InPortfolio) < MaxPositions

ProcessedRecord(symbol, bars, indicators) ==
    [symbol |-> symbol, bars |-> bars, indicators |-> indicators,
     cash_before |-> cash_balance, portfolio_before |-> portfolio,
     memory_before |-> Len(memory_log), decisions_before |-> decision_calls,
     trades_before |-> Len(saved_trades)]

\* _store_memories: one TECHNICAL record, and one NEWS record when there is news
StoredMemories(symbol, has_news) ==
    <<[symbol |-> symbol, data_type |-> "TECHNICAL"]>>
    \o (IF has_news THEN <<[symbol |-> symbol, data_type |-> "NEWS"]>> ELSE << >>)

\* _execute_trade_decision with execute_buy / execute_sell
ExecuteTradeDecision(symbol, action, price, quote) ==
    LET portfolio_value == cash_balance + PortfolioValue(portfolio, quote, Symbols)
        quantity == position_size(price, portfolio_value)
        have == portfolio[symbol]
        new_qty == have.quantity + quantity
        new_avg == RDiv(RAdd(RMul(RInt(have.quantity), have.avg_price),
                             RInt(quantity * price)), RInt(new_qty))
        \* execute_sell is given the whole holding: the quantity left is 0 and
        \* the key is deleted before line 795 looks the position up
        left == have.quantity - have.quantity
        basis == IF left = 0 THEN RInt(price) ELSE have.avg_price
        pnl == RMul(RSub(RInt(price), basis), RInt(have.quantity))
    IN  IF action = "HOLD" \/ price = 0
          THEN UNCHANGED <<cash_balance, portfolio, saved_trades>>
        ELSE IF action = "BUY" /\ can_buy(price, quantity)
          THEN /\ cash_balance' = cash_balance - price * quantity
               /\ portfolio' = [portfolio EXCEPT
                      ![symbol] = [quantity |-> new_qty, avg_price |-> new_avg]]
               /\ saved_trades' = Append(saved_trades,
                      [symbol |-> symbol, action |-> "BUY", quantity |-> quantity,
                       price |-> price])
        ELSE IF action = "SELL" /\ symbol \in InPortfolio
          THEN /\ cash_balance' = cash_balance + price * have.quantity
               /\ portfolio' = [portfolio EXCEPT ![symbol] = NoPosition]
               /\ saved_trades' = Append(saved_trades,
                      [symbol |-> symbol, action |-> "SELL",
                       quantity |-> have.quantity, price |-> price,
                       pnl |-> pnl])
        ELSE UNCHANGED <<cash_balance, portfolio, saved_trades>>

\* TradingSystem.process_stock(symbol)
ProcessStock ==
    /\ nprocessed < MaxProcessed
    /\ nprocessed' = nprocessed + 1
    /\ \E symbol \in Symbols, bars \in Windows, raises \in BOOLEAN :
          LET indicators == IF bars = 0 THEN {} ELSE calculate_indicators(bars, raises)
          IN  /\ processed' = ProcessedRecord(symbol, bars, indicators)
              /\ IF indicators = {}
                   THEN UNCHANGED <<cash_balance, portfolio, memory_log,
                                    decision_calls, saved_trades>>
                   ELSE \E has_news \in BOOLEAN, action \in {"BUY", "SELL", "HOLD"},
                           price \in Closes, quote \in CurrentPrices :
                           /\ memory_log' = memory_log \o StoredMemories(symbol, has_news)
                           /\ decision_calls' = decision_calls + 1
                           /\ ExecuteTradeDecision(symbol, action, price, quote)
    /\ UNCHANGED <<ledgerVars, memoryVars, riskVars, simulationVars, processorVars, pureVars, agentVars>>

NextSystem == ProcessStock

-----------------------------------------------------------------------------
(* Specifications *)

\* the ledger on its own (the memory stays as constructed)
InitLedger ==
    /\ LedgerConstructed
    /\ MemoryConstructed(2, 2, 5)
    /\ RiskIdle
    /\ SimulationConstructed("test", "rule_based", << >>)
    /\ ProcessorConstructed
    /\ SystemConstructed
    /\ AgentConstructed
    /\ NotCalled

SpecLedger == InitLedger /\ [][NextLedger]_vars

\* the memory on its own (the ledger stays as constructed)
InitMemory ==
    /\ LedgerConstructed
    /\ \E short_cap \in ShortTermCapacities, long_cap \in LongTermCapacities,
          threshold \in RelevanceThresholds :
          MemoryConstructed(short_cap, long_cap, threshold)
    /\ RiskIdle
    /\ SimulationConstructed("test", "rule_based", << >>)
    /\ ProcessorConstructed
    /\ SystemConstructed
    /\ AgentConstructed
    /\ NotCalled

SpecMemory == InitMemory /\ [][NextMemory]_vars

\* the risk filter on its own, called once with each input
InitRisk ==
    /\ LedgerConstructed
    /\ MemoryConstructed(2, 2, 5)
    /\ RiskCalled
    /\ SimulationConstructed("test", "rule_based", << >>)
    /\ ProcessorConstructed
    /\ SystemConstructed
    /\ AgentConstructed
    /\ NotCalled

SpecRisk == InitRisk /\ [][NextRisk]_vars

\* the simulation: each mode with each strategy; a backtest has a data set
InitSimulation ==
    /\ LedgerConstructed
    /\ position_size_limit = SimulationPositionSizeLimit
    /\ MemoryConstructed(2, 2, 5)
    /\ RiskIdle
    /\ \E m \in {"train", "test", "backtest"}, kind \in {"gemini", "rule_based"},
          data \in Datasets \cup {<< >>} :
          /\ (m = "backtest") <=> (data # << >>)
          /\ SimulationConstructed(m, kind, data)
    /\ ProcessorConstructed
    /\ SystemConstructed
    /\ AgentConstructed
    /\ NotCalled

SpecSimulation == InitSimulation /\ [][NextSimulation]_vars

\* the dashboard's processor in test mode
InitProcessor ==
    /\ LedgerConstructed
    /\ MemoryConstructed(2, 2, 5)
    /\ RiskIdle
    /\ SimulationConstructed("test", "rule_based", << >>)
    /\ ProcessorConstructed
    /\ SystemConstructed
    /\ AgentConstructed
    /\ NotCalled

SpecProcessor == InitProcessor /\ [][NextProcessor]_vars

\* the stand-alone trading system, one symbol at a time
InitSystem ==
    /\ LedgerConstructed
    /\ MemoryConstructed(2, 2, 5)
    /\ RiskIdle
    /\ SimulationConstructed("test", "rule_based", << >>)
    /\ ProcessorConstructed
    /\ SystemConstructed
    /\ AgentConstructed
    /\ NotCalled

SpecSystem == InitSystem /\ [][NextSystem]_vars

\* the rule-based position size on its own
InitSizing ==
    /\ LedgerConstructed
    /\ MemoryConstructed(2, 2, 5)
    /\ RiskIdle
    /\ SimulationConstructed("test", "rule_based", << >>)
    /\ ProcessorConstructed
    /\ SystemConstructed
    /\ AgentConstructed
    /\ SizingCalled

SpecSizing == InitSizing /\ [][NextSizing]_vars

\* the portfolio valuation on its own
InitValuation ==
    /\ LedgerConstructed
    /\ MemoryConstructed(2, 2, 5)
    /\ RiskIdle
    /\ SimulationConstructed("test", "rule_based", << >>)
    /\ ProcessorConstructed
    /\ SystemConstructed
    /\ AgentConstructed
    /\ ValuationCalled

SpecValuation == InitValuation /\ [][NextValuation]_vars

\* the rule-based strategy on its own
InitRule ==
    /\ LedgerConstructed
    /\ MemoryConstructed(2, 2, 5)
    /\ RiskIdle
    /\ SimulationConstructed("test", "rule_based", << >>)
    /\ ProcessorConstructed
    /\ SystemConstructed
    /\ AgentConstructed
    /\ RuleCalled

SpecRule == InitRule /\ [][NextRule]_vars

InitGates ==
    /\ LedgerConstructed
    /\ MemoryConstructed(2, 2, 5)
    /\ RiskIdle
    /\ SimulationConstructed("test", "rule_based", << >>)
    /\ ProcessorConstructed
    /\ SystemConstructed
    /\ AgentConstructed
    /\ GatesCalled

SpecGates == InitGates /\ [][NextGates]_vars

\* the agent on its own, with each strategy
InitAgent ==
    /\ LedgerConstructed
    /\ MemoryConstructed(2, 2, 5)
    /\ RiskIdle
    /\ \E kind \in {"gemini", "rule_based"} : SimulationConstructed("backtest", kind, << >>)
    /\ ProcessorConstructed
    /\ SystemConstructed
    /\ AgentConstructed
    /\ NotCalled

SpecAgent == InitAgent /\ [][NextAgent]_vars

-----------------------------------------------------------------------------
(* Ledger properties *)

\* sum over held positions of quantity x stored average cost
RECURSIVE CostBasis(_, _)
CostBasis(pos, S) ==
    IF S = {} THEN RInt(0)
    ELSE LET s == CHOOSE x \in S : TRUE
         IN  RAdd(RMul(RInt(pos[s].quantity), pos[s].price), CostBasis(pos, S \ {s}))

\* sum of the realized profit/loss of the logged sells
RECURSIVE RealizedPnL(_)
RealizedPnL(log) ==
    IF log = << >> THEN RInt(0)
    ELSE RAdd(Last(log).profit_loss, RealizedPnL(SubSeq(log, 1, Len(log) - 1)))

IsTrade == call.op \in {"buy", "sell"}

HeldBefore == call.symbol \in Held(call.positions_before)

PositionBefore == call.positions_before[call.symbol]

\* C1: after any sequence of buy and sell calls, cash plus the cost basis of
\* the held positions equals the initial capital plus the realized profit/loss
\* of the executed sells.
LedgerConservation ==
    RAdd(RInt(cash), CostBasis(positions, Held(positions)))
        = RAdd(RInt(initial_capital), RealizedPnL(trade_log))

MinimumLotEnforced ==
    (call.op = "buy" /\ call.ret /\ call.quantity >= 1) =>
        /\ Last(transactions).quantity >= MinLot
        /\ positions[call.symbol].quantity >= MinLot

\* C4: after a successful buy the position's value (at the trade price) is at
\* most 20% of the total portfolio value, within one share.
PositionSizeCeiling ==
    (call.op = "buy" /\ call.ret) =>
        LET quotes == [s \in Held(positions) |->
                          IF s = call.symbol THEN call.price ELSE NoQuote]
            total  == get_total_value(cash, positions, quotes)
            value  == (positions[call.symbol].quantity - 1) * call.price
        IN  ~RLess(RMul(total, Rat(1, 5)), RInt(value))

\* C5: cash is never negative.
CashNonNegative == cash >= 0

\* C6: every entry of positions has a quantity above 0.
PositionsPositive == \A s \in Held(positions) : positions[s].quantity > 0

\* C7: a buy or sell either returns True with exactly one record appended, or
\* returns False with cash, positions and transactions unchanged; existing
\* records are never modified.
LedgerAtomicity ==
    IsTrade =>
        /\ call.ret =>
              /\ Len(transactions) = Len(call.transactions_before) + 1
              /\ SubSeq(transactions, 1, Len(call.transactions_before))
                     = call.transactions_before
        /\ ~call.ret =>
              /\ cash = call.cash_before
              /\ positions = call.positions_before
              /\ transactions = call.transactions_before

ResetClearsLedger ==
    call.op = "reset" =>
        /\ call.ret
        /\ Held(positions) = {}
        /\ transactions = << >>
        /\ cash = call.price

-----------------------------------------------------------------------------
(* Memory properties *)

SortedDescending(tier) ==
    \A i \in 1..(Len(tier) - 1) : ~KeyLess(tier[i], tier[i + 1])

\* C10: after any number of add_memory calls each tier is within its
\* capacity and ordered by importance score descending, ties by timestamp
\* descending.
MemoryEvictionBound ==
    /\ Len(short_term) <= max_short_term
    /\ Len(long_term) <= max_long_term
    /\ SortedDescending(short_term)
    /\ SortedDescending(long_term)

\* both tiers are full after evictions: more entries were added than the
\* short-term tier holds, and an entry that qualified for the long-term tier
\* is no longer in it
MemoryEvictionWitness ==
    /\ nadds > max_short_term
    /\ Len(short_term) = max_short_term
    /\ Len(long_term) = max_long_term
    /\ \E i \in 1..Len(short_term) :
          /\ short_term[i].importance_score >= relevance_threshold
          /\ \A j \in 1..Len(long_term) : long_term[j] # short_term[i]
    /\ \E i \in 1..Len(short_term), j \in 1..Len(short_term) :
          short_term[i].importance_score # short_term[j].importance_score

\* the last call was a buy whose cost exceeded the cash on hand
ShrinkCase == call.op = "buy" /\ call.quantity * call.price > call.cash_before

AffordableQuantity == TruncDiv(call.cash_before, call.price)

LedgerAsBeforeCall ==
    /\ cash = call.cash_before
    /\ positions = call.positions_before
    /\ transactions = call.transactions_before

\* the call appended one record, for quantity q, and moved cash and the
\* symbol's holding by the same q
ExecutedAndRecorded(q) ==
    /\ Len(transactions) = Len(call.transactions_before) + 1
    /\ Last(transactions).quantity = q
    /\ Last(trade_log).quantity = q
    /\ cash = call.cash_before - q * call.price
    /\ call.symbol \in Held(positions)
    /\ positions[call.symbol].quantity =
           (IF HeldBefore THEN PositionBefore.quantity ELSE 0) + q

\* the quantity the position-size check cuts an order of floor(cash / price)
\* shares to, for some quotes of the held symbols; 0 when it does not cut
CeilingCuts(q) ==
    \E quotes \in [Held(call.positions_before) -> Quotes] :
        LET portfolio_value ==
                get_total_value(call.cash_before, call.positions_before, quotes)
        IN  /\ portfolio_value.n # 0
            /\ RLess(position_size_limit,
                     RDiv(RInt(AffordableQuantity * call.price), portfolio_value))
            /\ q = RTrunc(RDiv(RMul(portfolio_value, position_size_limit),
                               RInt(call.price)))

SellBlockedOnlyByHolding ==
    (call.op = "sell" /\ HeldBefore /\ call.quantity >= 1) => call.ret

\* number of entries of a tier stamped t
StampedAt(tier, t) == Cardinality({i \in 1..Len(tier) : tier[i].timestamp = t})

Timestamps(tier) == {tier[i].timestamp : i \in 1..Len(tier)}

\* C25: an add_memory that pushes the short-term tier over its capacity
\* removes the oldest entry (smallest timestamp) whatever the importance
\* scores, so the tier keeps the most recent entries
ShortTermOldestFirst ==
    [][(nadds' = nadds + 1 /\ Len(short_term) = max_short_term) =>
          LET stamps == Timestamps(short_term) \cup {now'}
              oldest == CHOOSE t \in stamps : \A u \in stamps : t <= u
          IN  \A t \in stamps :
                  StampedAt(short_term', t) =
                      StampedAt(short_term, t) + (IF t = now' THEN 1 ELSE 0)
                                               - (IF t = oldest THEN 1 ELSE 0)]_vars

Occurs(seq, x) == Cardinality({i \in 1..Len(seq) : seq[i] = x})

\* the two sequences hold the same entries, each as many times
SameEntries(a, b) ==
    /\ Len(a) = Len(b)
    /\ \A i \in 1..Len(a) : Occurs(a, a[i]) = Occurs(b, a[i])

Without(seq, j) == SubSeq(seq, 1, j - 1) \o SubSeq(seq, j + 1, Len(seq))

\* tier went from before to after by admitting e and, when that exceeded
\* the capacity, dropping an entry of lowest importance, oldest among equals
AdmittedThenEvicted(before, after, e, capacity) ==
    LET all == Append(before, e)
    IN  IF Len(all) <= capacity THEN SameEntries(after, all)
        ELSE \E j \in 1..Len(all) :
                /\ \A k \in 1..Len(all) : ~KeyLess(all[k], all[j])
                /\ SameEntries(after, Without(all, j))

AllAboveThreshold ==
    \A i \in 1..Len(long_term) : long_term[i].importance_score >= relevance_threshold

\* the long-term tier after an add_memory that recorded entry e
LongTermStep(e) ==
    IF e.importance_score >= relevance_threshold
    THEN AdmittedThenEvicted(long_term, long_term', e, max_long_term)
    ELSE SameEntries(long_term', long_term)

\* C26: every long-term entry has importance at or above the threshold,
\* every recorded entry is placed in the short-term tier, and a long-term
\* tier over capacity loses its entry of lowest importance, the oldest
\* among equals
LongTermAdmissionEviction ==
    [][nadds' = nadds + 1 =>
          /\ AllAboveThreshold'
          /\ \E data \in DataInputs :
                LET e == create_memory_entry(data, "market_data", now')
                IN  /\ Occurs(short_term', e) > 0
                    /\ LongTermStep(e)]_vars

\* what retrieve_relevant_memories returns in the current state
Recalled == retrieve_relevant_memories(short_term, long_term, relevance_threshold)

Stored == short_term \o long_term

\* C27: the recall holds every stored entry at or above the threshold and
\* none below it, as one sequence with the most important first and the
\* most recent first among equal scores
RecallOrdered ==
    /\ \A i \in 1..Len(Stored) :
          Stored[i].importance_score >= relevance_threshold
              => Occurs(Recalled, Stored[i]) > 0
    /\ \A i \in 1..Len(Recalled) :
          /\ Recalled[i].importance_score >= relevance_threshold
          /\ Occurs(Stored, Recalled[i]) > 0
    /\ \A i, j \in 1..Len(Recalled) : i < j => ~KeyLess(Recalled[i], Recalled[j])

-----------------------------------------------------------------------------
(* Risk filter properties *)

\* a well-formed buy whose cost is within the cash still available and above
\* the position-size ceiling
OverCeiling(t) ==
    /\ WellFormed(t.decision)
    /\ t.decision.action = "buy"
    /\ t.decision.quantity * t.decision.price <= t.available_cash
    /\ RLess(t.limit, RInt(t.decision.quantity * t.decision.price))

\* C11 as stated: a buy whose cost exceeds the ceiling (20% of total value)
\* but not the remaining cash leaves the filter, not rejected, with quantity
\* floor(ceiling x total_value / price).
RiskShrinkToCeiling ==
    risk_done =>
        \A i \in 1..Len(risk_trace) :
            OverCeiling(risk_trace[i]) =>
                /\ risk_trace[i].status = "kept"
                /\ risk_trace[i].out.quantity
                      = MaxQuantity(risk_trace[i].limit, risk_trace[i].decision.price)

\* C11 amended: such a buy is rejected when floor(ceiling x total_value /
\* price) is below 100 and otherwise leaves the filter with quantity
\* min(floor(ceiling x total_value / price), 1000), everything else unchanged.
RiskShrinkCapped ==
    risk_done =>
        \A i \in 1..Len(risk_trace) :
            OverCeiling(risk_trace[i]) =>
                LET t == risk_trace[i]
                    m == MaxQuantity(t.limit, t.decision.price)
                IN  /\ (t.status = "kept") <=> (m >= RiskMinLot)
                    /\ t.status # "kept" => t.status = "dropped"
                    /\ t.status = "kept" =>
                          t.out = [t.decision EXCEPT !.quantity = Min(m, MaxLot)]

\* the scenario: total value 1,000,000, a buy of 3,000 at 100 with enough
\* cash comes out with 1,000 shares
RiskShrinkWitness ==
    /\ risk_done
    /\ portfolio_state.total_value = RInt(1000000)
    /\ \E i \in 1..Len(risk_trace) :
          /\ OverCeiling(risk_trace[i])
          /\ risk_trace[i].decision.quantity = 3000
          /\ risk_trace[i].decision.price = 100
          /\ risk_trace[i].status = "kept"
          /\ risk_trace[i].out.quantity = 1000

\* a buy carrying a quantity and a price, i.e. one whose cost the filter computes
CostedBuy(t) ==
    /\ t.decision.mapping
    /\ t.decision.action = "buy"
    /\ {"action", "quantity", "price"} \subseteq t.decision.keys

SurvivingBuy(t) == t.status = "kept" /\ t.out.action = "buy"

FinalCost(t) == IF SurvivingBuy(t) THEN t.out.quantity * t.out.price ELSE 0

RECURSIVE SurvivingCost(_)
SurvivingCost(trace) ==
    IF trace = << >> THEN 0 ELSE FinalCost(Head(trace)) + SurvivingCost(Tail(trace))

\* C23: in one pass of the filter a buy whose cost at the proposed quantity
\* exceeds the cash still remaining is rejected, each surviving buy lowers
\* the remaining cash by its final cost, and the surviving buys together
\* cost no more than the cash at the start of the pass
RiskCashProgressive ==
    risk_done =>
        /\ \A i \in 1..Len(risk_trace) :
              LET t == risk_trace[i]
              IN  /\ t.available_cash =
                         portfolio_state.cash - SurvivingCost(SubSeq(risk_trace, 1, i - 1))
                  /\ (CostedBuy(t) /\ t.decision.quantity * t.decision.price > t.available_cash)
                         => t.status = "dropped"
        /\ SurvivingCost(risk_trace) <= portfolio_state.cash

\* a buy that the cash at the start would have covered is rejected because
\* an earlier surviving buy of the same pass has used the cash up
RiskCashWitness ==
    /\ risk_done
    /\ Len(risk_trace) = 2
    /\ SurvivingBuy(risk_trace[1])
    /\ CostedBuy(risk_trace[2])
    /\ risk_trace[2].status = "dropped"
    /\ risk_trace[2].decision.quantity * risk_trace[2].decision.price <= portfolio_state.cash
    /\ risk_trace[2].decision.quantity * risk_trace[2].decision.price
           > risk_trace[2].available_cash

-----------------------------------------------------------------------------
(* Simulation loop properties *)

LedgerAsAtStepStart ==
    /\ cash = step.cash_before
    /\ positions = step.positions_before
    /\ transactions = step.transactions_before

\* C12: in a pass of the live loop made while the trading calendar reports
\* the market closed there is no news fetch, no price fetch, no memory write,
\* no strategy call and no ledger call, and the ledger is as it was when the
\* pass began.
MarketClosedGate ==
    (mode # "backtest" /\ step.gate # "unread" /\ ~step.calendar_open) =>
        /\ step.news = "none"
        /\ step.prices = "none"
        /\ step.memory_writes = 0
        /\ ~step.strategy_called
        /\ step.calls = << >>
        /\ LedgerAsAtStepStart

\* C14: in every mode, while the running flag stays false the worker starts
\* no further step.
StopDrains ==
    [][(~running /\ ~running') => iteration' = iteration]_vars

\* C15: a backtest takes the dates in ascending order, each once, never
\* enters the polling loop, and has taken every date when the run has ended.
BacktestTermination ==
    mode = "backtest" =>
        /\ \A i \in 1..Len(processed_dates) : processed_dates[i] = i
        /\ pc \notin {"news", "prices", "sleep"}
        /\ simulation_thread = "dead" => Len(processed_dates) = Len(market_data)

\* C16: a failed news fetch, price fetch or model call in a live-loop step
\* leaves the step without intents and the ledger untouched, and does not
\* end the worker.
IOFailureSurvived ==
    (mode # "backtest"
        /\ (step.news = "failed" \/ step.prices \in {"raised", "empty"}
            \/ step.model = "failed")) =>
        /\ pending = << >>
        /\ step.calls = << >>
        /\ LedgerAsAtStepStart
        /\ run_error \notin {"yf.download", "daily_data.xs"}

\* C17: a malformed intent of the model's answer never reaches the ledger and
\* never ends the loop.
MalformedDropped ==
    /\ run_error # "log decisions"
    /\ \A i \in 1..Len(step.calls) :
          \A j \in 1..Len(step.parsed) :
              step.parsed[j].symbol = step.calls[i].symbol =>
                  WellFormed(step.parsed[j].decision)

\* C18: GeminiTrader.make_decision returns a mapping and never raises to its
\* caller, whatever the rows, the recalled memories and the response are.
DecideNeverRaises ==
    trader_kind = "gemini" => run_error # "_prepare_context"


\* C34: once start_non_blocking has been called, with no stop after it, the
\* simulation is running: a restart after a stop leaves no state in which the
\* flag is off, whatever the previous worker was doing when stop returned
RestartAfterStopRuns == requested = "start" => running

\* C36: a simulation step adds at most one market-data entry to the memory
\* store, and exactly one when it has market data
OneObservationPerStep ==
    /\ step.memory_writes <= 1
    /\ (mode = "backtest" /\ pc \in {"decide", "log", "execute"}) =>
           step.memory_writes = 1

-----------------------------------------------------------------------------
(* DataProcessor properties *)

InUpdate(w) == workers[w].at \in {"update", "trade"}

\* C13: across any sequence of start and stop calls, at most one worker
\* thread is executing the per-step pipeline against a given simulator
OneWorkerPerLedger ==
    \A v, w \in DOMAIN workers :
        (v # w /\ InUpdate(v) /\ InUpdate(w)) => workers[v].target # workers[w].target

\* C30: a start in which building a collaborator failed has raised to the
\* caller, has started no thread and has left the processor not running, so
\* that the next start is not turned away as already running
StartFailureLeavesStopped ==
    start_outcome.failed =>
        /\ start_outcome.raised
        /\ ~start_outcome.thread
        /\ ~processor_running

LedgerChanged == \E b \in DOMAIN books : books'[b] # books[b]

WorkerApplied ==
    \E w \in DOMAIN workers : workers[w].at = "trade" /\ workers'[w].at = "sleep"

\* C28: a simulator's ledger is changed by its update thread alone, and no
\* capital reset lands on a simulator while a worker is between selecting a
\* trade on it and applying it
LedgerOwnedByWorker ==
    [][/\ LedgerChanged => WorkerApplied
       /\ \A w \in DOMAIN workers' : ~workers'[w].reset_during]_vars

-----------------------------------------------------------------------------
(* TradingSystem properties *)

SystemAsBefore ==
    /\ cash_balance = processed.cash_before
    /\ portfolio = processed.portfolio_before
    /\ Len(memory_log) = processed.memory_before
    /\ decision_calls = processed.decisions_before
    /\ Len(saved_trades) = processed.trades_before

\* C19: a history of fewer than 50 bars gives the empty indicator result,
\* never a partial one, and process_stock then stores no memory, makes no
\* decision call and leaves the engine's cash, holdings and trades alone
InsufficientDataSkipped ==
    (nprocessed > 0 /\ processed.bars < MinBars) =>
        (processed.indicators = {} /\ SystemAsBefore)

\* a 49-bar history is skipped after earlier steps stored memory and traded
InsufficientDataWitness ==
    /\ processed.bars = 49
    /\ processed.indicators = {}
    /\ processed.memory_before > 0
    /\ processed.trades_before > 0
    /\ SystemAsBefore

\* the strategy call of the step ran _apply_risk_rules on what it returned
\* (GeminiTrader.make_decision after a successful model call, lines 92-98)
RiskFilterRan == step.model = "called"

\* C22: no buy reaches Portfolio.buy in a step unless the step's intents
\* went through the risk filter first, whichever strategy is in use
FilterBeforeLedger ==
    (\E i \in DOMAIN step.calls : step.calls[i].op = "buy") => RiskFilterRan

\* C24: the memories handed to the decision strategy in a step were all
\* recorded before the step began, never during the step itself
MemoryVisibleNextStep ==
    \A i \in DOMAIN step.recalled : step.recalled[i] <= step.clock

\* C29: once stop has returned (the flag is false and stays false) no buy
\* or sell is applied to the ledger
LedgerQuiescentAfterStop ==
    [][(~running /\ ~running') =>
          (cash' = cash /\ positions' = positions /\ transactions' = transactions)]_vars

-----------------------------------------------------------------------------
(* Rule-based strategy properties *)

\* 10 x current_price x the denominator of portfolio_value: one share's worth
\* of the tenth of the portfolio, cleared of fractions
ShareStep == 10 * call_args.current_price * call_args.portfolio_value.d

\* C31: the rule-based buy quantity is floor(0.10 x total_value / price)
\* clamped into [100, 2000]: it is the floor when that lies inside, 100 when
\* the floor is below and 2000 when the floor is above
PositionSizeClamped ==
    call_result.returned =>
        LET q == call_result.value
            n == call_args.portfolio_value.n
        IN  /\ q \in 100..2000
            /\ q > 100 => q * ShareStep <= n
            /\ q < 2000 => n < (q + 1) * ShareStep

\* a call whose floor lies strictly inside the clamps
PositionSizeWitness ==
    /\ call_result.returned
    /\ call_result.value > 100
    /\ call_result.value < 2000

\* the rows of the call that carry the symbol
RowsOf(symbol) ==
    {i \in DOMAIN call_args.rows : call_args.rows[i].Symbol = symbol}

\* C33: the rule-based strategy sells only what is held and the whole of it,
\* buys only what is not held, and gives no intent to a symbol whose short
\* or long moving average is missing
RuleIntentsConsistent ==
    call_result.returned =>
        \A i \in DOMAIN call_result.value :
            LET symbol == call_result.value[i].symbol
                intent == call_result.value[i].decision
                held   == Held(call_args.state.positions)
            IN  /\ intent.action \in {"buy", "sell"}
                /\ intent.action = "sell" =>
                      /\ symbol \in held
                      /\ intent.quantity = call_args.state.positions[symbol].quantity
                /\ intent.action = "buy" => symbol \notin held
                /\ \A r \in RowsOf(symbol) :
                      /\ call_args.rows[r].ma_20 # Absent
                      /\ call_args.rows[r].ma_50 # Absent

\* a call with a held symbol sold, a free symbol bought
RuleIntentsWitness ==
    /\ call_result.returned
    /\ \E i, j \in DOMAIN call_result.value :
          /\ call_result.value[i].decision.action = "sell"
          /\ call_result.value[j].decision.action = "buy"

-----------------------------------------------------------------------------
(* Valuation properties *)

REqual(a, b) == ~RLess(a, b) /\ ~RLess(b, a)

\* cash + sum over the held symbols of quantity x (the price supplied, or the
\* stored average cost where none is)
RECURSIVE ValuedAtSupplied(_, _, _)
ValuedAtSupplied(pos, answers, S) ==
    IF S = {} THEN RInt(0)
    ELSE LET s == CHOOSE x \in S : TRUE
             px == IF answers[s] # Absent THEN RInt(answers[s]) ELSE pos[s].price
         IN  RAdd(ValuedAtSupplied(pos, answers, S \ {s}),
                  RMul(px, RInt(pos[s].quantity)))

\* C32: get_total_value returns cash + sum over held positions of quantity x
\* (the current price if the price source supplies one, otherwise the stored
\* average cost), whichever held symbols have no price
TotalValueFallsBack ==
    call_result.returned =>
        REqual(call_result.value,
               RAdd(RInt(call_args.cash),
                    ValuedAtSupplied(call_args.positions, call_args.answers,
                                     Held(call_args.positions))))

-----------------------------------------------------------------------------
(* TradingAgent properties *)

\* the symbol had an intent returned less than min_hold_days before the call
HeldBack(symbol) ==
    /\ agent_call.before[symbol] # Absent
    /\ agent_call.date - agent_call.before[symbol] < HoursPerDay * MinHoldDays

\* C35: a symbol that had an intent returned less than min_hold_days before
\* the date of a call is kept out of the rows given to the strategy and has
\* no intent in what the call returns
MinimumHoldingPeriod ==
    \A symbol \in Symbols :
        HeldBack(symbol) =>
            /\ \A i \in DOMAIN agent_call.given : agent_call.given[i].Symbol # symbol
            /\ \A i \in DOMAIN agent_call.decisions :
                  agent_call.decisions[i].symbol # symbol

-----------------------------------------------------------------------------
(* Market-hours properties *)

\* C37: for every reading of the clock the gate of the simulation loop
\* (RealTimeDataManager.is_market_open) gives the answer of the trading
\* calendar (MarketHours.is_market_open)
GateAgreesWithCalendar ==
    call_result.returned => call_result.value.gate = call_result.value.calendar

\* the trade record that the last process_stock call saved, when it sold
SoldInLastCall ==
    /\ Len(saved_trades) > processed.trades_before
    /\ saved_trades[Len(saved_trades)].action = "SELL"

\* C38: the P/L in the record of a SELL is (sale price - the average price
\* the position had before the sale) x the quantity sold
RealizedPnLAtCostBasis ==
    SoldInLastCall =>
        LET trade == saved_trades[Len(saved_trades)]
            before == processed.portfolio_before[trade.symbol]
        IN  REqual(trade.pnl,
                   RMul(RSub(RInt(trade.price), before.avg_price), RInt(trade.quantity)))

====
